---- MODULE Spec2Model ----
(***************************************************************************)
(* A model of the GitHub Actions configuration of the aeon repository:     *)
(* the workflows under .github/workflows, the composite actions            *)
(* numba_cache and cpu_all_extras, and the behaviour of the steps they     *)
(* use (retry wrapper, cache restore/save, step conditions, matrices and   *)
(* concurrency groups).                                                    *)
(***************************************************************************)
EXTENDS Integers, Sequences, FiniteSets, TLC

VARIABLES
    ctx,        \* context of the job being run (workflow, job, matrix, event)
    steps,      \* the steps of the job, composite actions expanded
    phase,      \* "idle" | "running" | "done" | "skipped"
    pc,         \* index of the next step of the job
    status,     \* job status so far: "success" | "failure" | "cancelled"
    attempt,    \* attempts that the retry step at pc has made and seen fail
    env,        \* environment variables exported through GITHUB_ENV
    ran,        \* per step: "pending" | "ok" | "failed" | "skipped"
    restored,   \* key of the cache restored in this job ("" when none)
    cache,      \* the repository's cache entries, oldest first
    today,      \* the current day
    matrix,     \* job instances the job's matrix expanded to in this run
    wfruns,     \* workflow runs, oldest first: [workflow, event_name,
                \*   head_ref, ref, state]
    event,      \* the last repository event delivered to the workflows
    triggered,  \* the workflows that event created a run of
    issue,      \* the issue or pull request of the event: its assignees and
                \*   the comment the assign bot processed
    X,          \* a collection of series: a list of 2D arrays, X[i][c][t]
    Xt,         \* the collection a transformer's fit_transform returned
    transformer, \* the transformer applied to X ("" before)
    release,    \* a run of the Release workflow: the result of each job
                \*   instance, the run's artifacts, what was published
    hooks       \* the ids of the hooks pre-commit ran in this job

\* the state outside the job runner: the repository's events, the issue
\* commented on, and the collections of the example notebook
repoVars == <<event, triggered, issue, X, Xt, transformer, release, hooks>>

vars == <<ctx, steps, phase, pc, status, attempt, env, ran, restored,
          cache, today, matrix, wfruns, repoVars>>

----------------------------------------------------------------------------
(* Bounds of the model.                                                    *)

MaxDay == 2
MaxCache == 2
\* the runs of the cache specification take the matrix combinations of the
\* first MaxPythons Python versions of the matrix
MaxPythons == 2
MaxWfRuns == 3
MaxCases == 3
MaxChannels == 2
MaxTimepoints == 4

----------------------------------------------------------------------------
(* Strings.                                                                *)

StartsWith(s, p) == Len(p) <= Len(s) /\ SubSeq(s, 1, Len(p)) = p

EndsWith(s, p) ==
    Len(p) <= Len(s) /\ SubSeq(s, Len(s) - Len(p) + 1, Len(s)) = p

Contains(s, p) ==
    \E i \in 1..(Len(s) - Len(p) + 1) : SubSeq(s, i, i + Len(p) - 1) = p

----------------------------------------------------------------------------
(* Values of workflow expressions ${{ ... }}: booleans and strings, with   *)
(* the truthiness, && and || of the expression language.                   *)

Bool(b) == [t |-> "bool", b |-> b, s |-> ""]
Str(s) == [t |-> "str", b |-> FALSE, s |-> s]

Truthy(v) == IF v.t = "bool" THEN v.b ELSE v.s # ""

ExprAnd(a, b) == IF Truthy(a) THEN b ELSE a
ExprOr(a, b) == IF Truthy(a) THEN a ELSE b

\* the text an expression value is interpolated as
ToStr(v) == IF v.t = "str" THEN v.s ELSE IF v.b THEN "true" ELSE "false"

----------------------------------------------------------------------------
(* Steps.  A step is a record; its `if` is split into the status check     *)
(* (success() unless the expression calls always()) and the rest of the    *)
(* condition, which depends only on the job's context and inputs.          *)

Step(name, check, cond, uses, command) ==
    [name |-> name, check |-> check, cond |-> cond, uses |-> uses,
     command |-> command, max_attempts |-> 1, timeout_minutes |-> 0,
     var |-> "", value |-> "", key |-> "", restore_keys |-> ""]

\* - run: <command>
Run(name, cond, command) == Step(name, "success", cond, "run", command)

\* - uses: <action>
Uses(name, check, cond, uses) == Step(name, check, cond, uses, "")

\* - uses: nick-fields/retry@v3 with timeout_minutes, max_attempts, command
Retry(name, cond, timeout_minutes, max_attempts, command) ==
    [Step(name, "success", cond, "nick-fields/retry@v3", command)
        EXCEPT !.max_attempts = max_attempts,
               !.timeout_minutes = timeout_minutes]

\* - run: echo "VAR=value" >> $GITHUB_ENV
SetEnv(name, cond, var, value) ==
    [Step(name, "success", cond, "run", "echo >> $GITHUB_ENV")
        EXCEPT !.var = var, !.value = value]

\* - uses: actions/setup-python@v5 with python-version
SetupPython(name, version) ==
    [Uses(name, "success", TRUE, "actions/setup-python@v5")
        EXCEPT !.var = "python-version", !.value = version]

Checkout(name) == Uses(name, "success", TRUE, "actions/checkout@v4")

\* runner.os for a runs-on label
RunnerOS(label) ==
    CASE label \in {"ubuntu-24.04"} -> "Linux"
      [] label \in {"macOS-14", "macos-14"} -> "macOS"
      [] label \in {"windows-2022"} -> "Windows"

\* the inputs of a composite action: `with` over the declared defaults
Inputs(defaults, with) ==
    [k \in DOMAIN defaults \cup DOMAIN with |->
        IF k \in DOMAIN with THEN with[k] ELSE defaults[k]]

\* github.workspace on the hosted runner of operating system os
Workspace(os) ==
    CASE os = "Linux" -> "/home/runner/work/aeon/aeon"
      [] os = "macOS" -> "/Users/runner/work/aeon/aeon"
      [] os = "Windows" -> "D:\\a\\aeon\\aeon"
DateCommand == "$(date +'%d/%m/%Y')"
LsWheelCommand == "$(ls ./dist/aeon-*-none-any.whl)"
EnvCurrentDate == "${{ env.CURRENT_DATE }}"

----------------------------------------------------------------------------
(* The composite action .github/actions/numba_cache.  `outer` is the       *)
(* condition of the step that uses the action.                             *)

NumbaCpuFeatures ==
    "+64bit +adx +aes +avx +avx2 -avx512bf16 -avx512bitalg -avx512bw -avx512cd -avx512dq -avx512er -avx512f -avx512ifma -avx512pf -avx512vbmi -avx512vbmi2 -avx512vl -avx512vnni -avx512vpopcntdq +bmi +bmi2 -cldemote -clflushopt -clwb -clzero +cmov +cx16 +cx8 -enqcmd +f16c +fma -fma4 +fsgsbase +fxsr -gfni +invpcid -lwp +lzcnt +mmx +movbe -movdir64b -movdiri -mwaitx +pclmul -pconfig -pku +popcnt -prefetchwt1 +prfchw -ptwrite -rdpid +rdrnd +rdseed +rtm +sahf -sgx -sha -shstk +sse +sse2 +sse3 +sse4.1 +sse4.2 -sse4a +ssse3 -tbm -vaes -vpclmulqdq -waitpkg -wbnoinvd -xop +xsave -xsavec +xsaveopt -xsaves"

numba_cache_defaults == [restore_cache |-> "true"]

numba_cache_key(inputs) ==
    "numba-" \o inputs.cache_name \o "-" \o inputs.runner_os \o "-"
        \o inputs.python_version \o "-" \o EnvCurrentDate

\* a restore key without the Python version
numba_cache_restore_keys_no_python(inputs) ==
    "numba-" \o inputs.cache_name \o "-" \o inputs.runner_os \o "-"

numba_cache_restore_keys(inputs) ==
    "numba-" \o inputs.cache_name \o "-" \o inputs.runner_os \o "-"
        \o inputs.python_version \o "-"

\* a Restore cache step without its `if`
numba_cache_restore_always(inputs) == TRUE

numba_cache_restore_if(inputs) == inputs.restore_cache = "true"

numba_cache(with, os, outer) ==
    LET inputs == Inputs(numba_cache_defaults, with) IN
    << SetEnv("Set numba cache env", outer,
              "NUMBA_CACHE_DIR", Workspace(os) \o "/.numba_cache"),
       SetEnv("Set numba CPU env", outer, "NUMBA_CPU_NAME", "generic"),
       SetEnv("Set numba CPU features env", outer,
              "NUMBA_CPU_FEATURES", NumbaCpuFeatures),
       SetEnv("Set CACHING_CICD_RUNNING env", outer,
              "CACHING_CICD_RUNNING", "1"),
       SetEnv("Get Current Date", outer, "CURRENT_DATE", DateCommand),
       Run("Use GNU tar instead BSD tar if Windows",
           outer /\ inputs.runner_os = "Windows",
           "echo C:\\Program Files\\Git\\usr\\bin>>\"%GITHUB_PATH%\""),
       [Uses("Restore cache", "success",
             outer /\ numba_cache_restore_if(inputs),
             "actions/cache/restore@v4")
           EXCEPT !.key = numba_cache_key(inputs),
                  !.restore_keys = numba_cache_restore_keys(inputs),
                  !.var = "restore_cache",
                  !.value = inputs.restore_cache] >>

----------------------------------------------------------------------------
(* The composite action .github/actions/cpu_all_extras.  `os` is           *)
(* runner.os of the job that uses the action.                              *)

cpu_all_extras_defaults == [python_version |-> "3.12", additional_extras |-> ""]

\* an extras list with an unconditional comma
cpu_all_extras_command_comma(inputs) ==
    "python -m pip install .[all_extras," \o inputs.additional_extras \o "]"

cpu_all_extras_command(inputs) ==
    "python -m pip install .[all_extras"
        \o ToStr(ExprOr(ExprAnd(Bool(inputs.additional_extras # ""), Str(",")),
                        Str("")))
        \o inputs.additional_extras \o "]"

\* a TensorFlow condition without the Python 3.13 exclusion
cpu_tensorflow_if_linux(os, inputs) == os = "Linux"

cpu_tensorflow_if(os, inputs) == os = "Linux" /\ inputs.python_version # "3.13"

cpu_pytorch_if(os, inputs) == os = "Linux"

\* the action reduced to its Install dependencies step
cpu_all_extras_plain(with, os, outer) ==
    LET inputs == Inputs(cpu_all_extras_defaults, with) IN
    << Retry("Install dependencies", outer, 30, 3,
             cpu_all_extras_command(inputs)) >>

cpu_all_extras(with, os, outer) ==
    LET inputs == Inputs(cpu_all_extras_defaults, with) IN
    << Retry("Install CPU TensorFlow", outer /\ cpu_tensorflow_if(os, inputs),
             30, 3, "python -m pip install tensorflow-cpu"),
       Retry("Install CPU PyTorch", outer /\ cpu_pytorch_if(os, inputs), 30, 3,
             "python -m pip install torch --index-url https://download.pytorch.org/whl/cpu"),
       Retry("Install dependencies", outer, 30, 3,
             cpu_all_extras_command(inputs)) >>

----------------------------------------------------------------------------
(* Conditions of the workflows, over the job context c.                    *)

HasLabel(c, label) == label \in c.labels

\* a Restore numba cache step without its `if`
IfNumbaCacheAlways(c) == TRUE

\* github.event_name != 'pull_request' ||
\*   !contains(github.event.pull_request.labels.*.name, 'no numba cache')
IfNumbaCache(c) ==
    c.event_name # "pull_request" \/ ~HasLabel(c, "no numba cache")

\* matrix.pr-testing of the pytest job of PR pytest:
\* github.event_name == 'pull_request' &&
\*   !contains(github.event.pull_request.labels.*.name, 'full pytest actions')
PrTesting(c) ==
    Bool(c.event_name = "pull_request" /\ ~HasLabel(c, "full pytest actions"))

\* a Run tests step that looks at the event only
RunTestsPrTestingAnyPr(c) == Bool(c.event_name = "pull_request")

\* the expression after --prtesting in the Run tests step of the pytest job:
\* github.event_name == 'pull_request' &&
\*   !contains(github.event.pull_request.labels.*.name, 'full pytest actions')
RunTestsPrTesting(c) ==
    ExprAnd(Bool(c.event_name = "pull_request"),
            Bool(~HasLabel(c, "full pytest actions")))

\* a codecov job without its `if`
JobIfCodecovAlways(c) ==
    CASE c.workflow = "PR typecheck" /\ c.job = "typecheck" ->
            c.event_name = "pull_request" /\ HasLabel(c, "run typecheck test")
      [] c.workflow = "Issue comment edited" /\ c.job = "pr-welcome-edited" ->
            "issue.pull_request" \in c.payload
      [] c.workflow = "Pull request labelled" /\ c.job = "ai-pull-request" ->
            "label.name=AI pull request" \in c.payload
      [] OTHER -> TRUE

\* the `if` of a job (TRUE when the job has none)
JobIf(c) ==
    CASE c.workflow = "PR pytest" /\ c.job = "codecov" ->
            c.event_name # "pull_request" \/ HasLabel(c, "codecov actions")
      [] c.workflow = "PR typecheck" /\ c.job = "typecheck" ->
            c.event_name = "pull_request" /\ HasLabel(c, "run typecheck test")
      [] c.workflow = "Issue comment edited" /\ c.job = "pr-welcome-edited" ->
            "issue.pull_request" \in c.payload
      [] c.workflow = "Pull request labelled" /\ c.job = "ai-pull-request" ->
            "label.name=AI pull request" \in c.payload
      [] OTHER -> TRUE

----------------------------------------------------------------------------
(* Steps shared by several jobs.                                           *)

ShowDependencies == Run("Show dependencies", TRUE, "python -m pip list")

CreateAppToken(check) ==
    Uses("Create app token", check, TRUE, "actions/create-github-app-token@v2")

InstallPyGithub == Run("Install PyGithub", TRUE, "pip install -Uq PyGithub")

ClearDiskSpace ==
    Uses("Clear disik space", "success", TRUE, "jlumbroso/free-disk-space@v1.3.1")

SetSwapSpace(c) ==
    Uses("Set swap space", "success", RunnerOS(c.os) = "Linux",
         "pierotofy/set-swap-space@v1.0")

\* a Save new cache step with if: always()
SaveNewCacheAlways(key) ==
    [Uses("Save new cache", "always", TRUE, "actions/cache/save@v4")
        EXCEPT !.key = key]

\* - name: Save new cache, uses: actions/cache/save@v4 with key
SaveNewCache(key) ==
    [Uses("Save new cache", "success", TRUE, "actions/cache/save@v4")
        EXCEPT !.key = key]

\* - uses: pre-commit/action@v3.0.1 with extra_args
PreCommit(name, extra_args) ==
    [Uses(name, "success", TRUE, "pre-commit/action@v3.0.1")
        EXCEPT !.var = "extra_args", !.value = extra_args]

UploadCoverage ==
    Uses("Upload coverage to Codecov", "success", TRUE, "codecov/codecov-action@v5")

----------------------------------------------------------------------------
(* Workflow "Periodic tests" (.github/workflows/periodic_tests.yml).       *)

PeriodicNumbaCache(c, cache_name, python_version) ==
    numba_cache([cache_name |-> cache_name, runner_os |-> RunnerOS(c.os),
                 python_version |-> python_version, restore_cache |-> "false"],
                RunnerOS(c.os), TRUE)

PeriodicSteps(c) ==
    CASE c.job = "check-manifest" ->
        << Checkout("Checkout"),
           SetupPython("Setup Python 3.12", "3.12"),
           PreCommit("Run check-manifest", "check-manifest --hook-stage manual") >>
      [] c.job = "pre-commit" ->
        << Checkout("Checkout"),
           SetupPython("Setup Python 3.12", "3.12"),
           PreCommit("Run pre-commit", "--all-files") >>
      [] c.job = "run-notebook-examples" ->
        << Checkout("Checkout"),
           Run("Install latest version of bash", TRUE, "brew install bash"),
           SetupPython("Setup Python 3.12", "3.12") >>
        \o PeriodicNumbaCache(c, "run-notebook-examples", "3.12")
        \o << Retry("Install dependencies", TRUE, 30, 3,
                    "python -m pip install .[all_extras,binder,dev]"),
              ShowDependencies,
              Run("Run example notebooks", TRUE,
                  ".github/utilities/run_examples.sh false"),
              SaveNewCache("numba-run-notebook-examples-" \o RunnerOS(c.os)
                           \o "-3.12-" \o EnvCurrentDate) >>
      [] c.job = "test-core-imports" ->
        << Checkout("Checkout"),
           SetupPython("Setup Python 3.12", "3.12"),
           Retry("Install aeon and dependencies", TRUE, 30, 3,
                 "python -m pip install ."),
           ShowDependencies,
           Run("Run import test", TRUE,
               "python aeon/testing/tests/test_core_imports.py") >>
      [] c.job = "test-no-soft-deps" ->
        << Checkout("Checkout"),
           SetupPython("Setup Python 3.12", "3.12") >>
        \o PeriodicNumbaCache(c, "test-no-soft-deps", "3.12")
        \o << Retry("Install aeon and dependencies", TRUE, 30, 3,
                    "python -m pip install .[dev]"),
              ShowDependencies,
              Run("Run tests", TRUE, "python -m pytest -n logical"),
              SaveNewCache("numba-test-no-soft-deps-" \o RunnerOS(c.os)
                           \o "-3.12-" \o EnvCurrentDate) >>
      [] c.job = "pytest" ->
        << Checkout("Checkout"),
           SetupPython("Setup Python", c.py),
           ClearDiskSpace,
           SetSwapSpace(c) >>
        \o PeriodicNumbaCache(c, "pytest", c.py)
        \o << Retry("Install aeon and dependencies", TRUE, 30, 3,
                    "python -m pip install .[all_extras,dev]"),
              ShowDependencies,
              Run("Run tests", TRUE, "python -m pytest -n logical"),
              SaveNewCache("numba-pytest-" \o RunnerOS(c.os) \o "-" \o c.py
                           \o "-" \o EnvCurrentDate) >>
      [] c.job = "doctests" ->
        << Checkout("Checkout"),
           SetupPython("Setup Python 3.12", "3.12") >>
        \o PeriodicNumbaCache(c, "doctests", "3.12")
        \o << Retry("Install aeon and dependencies", TRUE, 30, 3,
                    "python -m pip install .[all_extras,dev]"),
              ShowDependencies,
              Run("Run tests", TRUE,
                  "python -m pytest -n logical --doctest-only --doctest-continue-on-failure") >>
      [] c.job = "multithreaded-estimators" ->
        << Checkout("Checkout"),
           SetupPython("Setup Python 3.12", "3.12") >>
        \o PeriodicNumbaCache(c, "multithreaded-estimators", "3.12")
        \o << Retry("Install aeon and dependencies", TRUE, 30, 3,
                    "python -m pip install .[all_extras,dev]"),
              ShowDependencies,
              Run("Run tests", TRUE,
                  "python -m pytest aeon/testing/tests/ --enablethreading true -k \"check_estimator_multithreading\"") >>
      [] c.job = "codecov" ->
        << Checkout("Checkout"),
           SetupPython("Setup Python 3.12", "3.12"),
           SetEnv("Disable Numba JIT", TRUE, "NUMBA_DISABLE_JIT", "1"),
           Retry("Install aeon and dependencies", TRUE, 30, 3,
                 "python -m pip install .[all_extras,unstable_extras,dev]"),
           ShowDependencies,
           Run("Run tests", TRUE,
               "python -m pytest -n logical --cov=aeon --cov-report=xml --timeout 1800"),
           UploadCoverage >>

----------------------------------------------------------------------------
(* Workflow "PR pytest" (second document of update_contributors.yml).      *)

PrNumbaCache(c, cache_name, python_version) ==
    numba_cache([cache_name |-> cache_name, runner_os |-> RunnerOS(c.os),
                 python_version |-> python_version],
                RunnerOS(c.os), IfNumbaCache(c))

PrPytestSteps(c) ==
    CASE c.job = "test-no-soft-deps" ->
        << Checkout("Checkout"),
           SetupPython("Setup Python 3.12", "3.12") >>
        \o PrNumbaCache(c, "test-no-soft-deps", "3.12")
        \o << Retry("Install aeon and dependencies", TRUE, 30, 3,
                    "python -m pip install .[dev]"),
              ShowDependencies,
              Run("Run tests", TRUE, "python -m pytest -n logical") >>
      [] c.job = "pytest" ->
        << Checkout("Checkout"),
           SetupPython("Setup Python", c.py),
           ClearDiskSpace,
           SetSwapSpace(c) >>
        \o PrNumbaCache(c, "pytest", c.py)
        \o cpu_all_extras([python_version |-> c.py, additional_extras |-> "dev"],
                          RunnerOS(c.os), TRUE)
        \o << ShowDependencies,
              Run("Run tests", TRUE,
                  "python -m pytest -n logical --prtesting "
                      \o ToStr(RunTestsPrTesting(c))) >>
      [] c.job = "doctests" ->
        << Checkout("Checkout"),
           SetupPython("Setup Python 3.12", "3.12") >>
        \o PrNumbaCache(c, "doctests", "3.12")
        \o cpu_all_extras([additional_extras |-> "dev"], RunnerOS(c.os), TRUE)
        \o << ShowDependencies,
              Run("Run tests", TRUE,
                  "python -m pytest -n logical --doctest-only --doctest-continue-on-failure") >>
      [] c.job = "multithreaded-estimators" ->
        << Checkout("Checkout"),
           SetupPython("Setup Python 3.12", "3.12") >>
        \o PrNumbaCache(c, "multithreaded-estimators", "3.12")
        \o cpu_all_extras([additional_extras |-> "dev"], RunnerOS(c.os), TRUE)
        \o << ShowDependencies,
              Run("Run tests", TRUE,
                  "python -m pytest aeon/testing/tests/ --enablethreading true -k \"check_estimator_multithreading\"") >>
      [] c.job = "codecov" ->
        << Checkout("Checkout"),
           SetupPython("Setup Python 3.12", "3.12"),
           SetEnv("Disable Numba JIT", TRUE, "NUMBA_DISABLE_JIT", "1") >>
        \o cpu_all_extras([additional_extras |-> "unstable_extras,dev"],
                          RunnerOS(c.os), TRUE)
        \o << ShowDependencies,
              Run("Run tests", TRUE,
                  "python -m pytest -n logical --cov=aeon --cov-report=xml --timeout 1800"),
              UploadCoverage >>

----------------------------------------------------------------------------
(* Workflow "Release".                                                     *)


\* uses: actions/download-artifact@v4 with name: dist, path: dist
DownloadDist ==
    [Uses("actions/download-artifact@v4", "success", TRUE,
          "actions/download-artifact@v4")
        EXCEPT !.var = "name", !.value = "dist"]

\* the Unix install step of test-wheels
UnixInstall(c) ==
    Retry("Unix install", RunnerOS(c.os) # "Windows", 30, 3,
          "python -m pip install \"${{ env.WHEELNAME }}[all_extras,dev]\"")

ReleaseSteps(c) ==
    CASE c.job = "check-manifest" ->
        << Checkout("actions/checkout@v4"),
           SetupPython("Setup Python 3.12", "3.12"),
           PreCommit("pre-commit/action@v3.0.1",
                     "check-manifest --hook-stage manual") >>
      [] c.job = "build-project" ->
        << Checkout("actions/checkout@v4"),
           SetupPython("Setup Python 3.12", "3.12"),
           Run("Build project", TRUE,
               "python -m pip install build; python -m build"),
           [Uses("Store build files", "success", TRUE,
                 "actions/upload-artifact@v4")
               EXCEPT !.var = "name", !.value = "dist"] >>
      [] c.job = "test-wheels" ->
        << Checkout("Checkout"),
           SetupPython("Setup Python", c.py),
           ClearDiskSpace,
           SetSwapSpace(c),
           DownloadDist,
           SetEnv("Windows wheel filename", RunnerOS(c.os) = "Windows",
                  "WHEELNAME", LsWheelCommand),
           SetEnv("Unix wheel filename", RunnerOS(c.os) # "Windows",
                  "WHEELNAME", LsWheelCommand) >>
        \o numba_cache([cache_name |-> "release", runner_os |-> RunnerOS(c.os),
                        python_version |-> c.py, restore_cache |-> "false"],
                       RunnerOS(c.os), TRUE)
        \o << Retry("Windows install", RunnerOS(c.os) = "Windows", 30, 3,
                    "python -m pip install \"${env:WHEELNAME}[all_extras,dev]\""),
              UnixInstall(c),
              ShowDependencies,
              Run("Tests", TRUE, "python -m pytest -n logical") >>
      [] c.job = "upload-wheels" ->
        << DownloadDist,
           Uses("Publish package to PyPI", "success", TRUE,
                "pypa/gh-action-pypi-publish@release/v1") >>

----------------------------------------------------------------------------
(* Workflow "Weekly GitHub maintenance".                                   *)

CreatePullRequest(check, branch) ==
    [Uses("peter-evans/create-pull-request@v7", check, TRUE,
          "peter-evans/create-pull-request@v7")
        EXCEPT !.var = "branch", !.value = branch]

WeeklySteps(c) ==
    CASE c.job = "pre-commit-auto-update" ->
        << Checkout("Checkout main"),
           SetupPython("Setup Python 3.12", "3.12"),
           Uses("browniebroke/pre-commit-autoupdate-action@v1.0.0", "success",
                TRUE, "browniebroke/pre-commit-autoupdate-action@v1.0.0"),
           CreateAppToken("always"),
           CreatePullRequest("always", "pre-commit-hooks-update") >>
      [] c.job = "teams-table-auto-update" ->
        << Checkout("Checkout main"),
           SetupPython("Setup Python 3.12", "3.12"),
           Run("Install requests", TRUE, "pip install -Uq requests"),
           CreateAppToken("success"),
           Run("Process comment edit", TRUE,
               "python .github/utilities/generate_developer_tables.py"),
           CreatePullRequest("success", "webpage-teams-update") >>
      [] c.job = "github-security-scorecard" ->
        << Checkout("Checkout code"),
           Uses("Run analysis", "success", TRUE, "ossf/scorecard-action@v2.4.2"),
           Uses("Upload artifact", "success", TRUE, "actions/upload-artifact@v4"),
           Uses("Upload to code-scanning", "success", TRUE,
                "github/codeql-action/upload-sarif@v3") >>
      [] c.job = "stale_branches" ->
        << CreateAppToken("success"),
           Uses("Stale Branches", "success", TRUE, "crs-k/stale-branches@v8.2.1") >>

----------------------------------------------------------------------------
(* The remaining workflows.                                                *)

\* the typecheck job with a bare install command
TypecheckStepsBareInstall(c) ==
    << Checkout("Checkout"),
       SetupPython("Setup Python 3.12", "3.12"),
       Run("Install aeon, dependencies and mypy", TRUE,
           "python -m pip install .[all_extras,unstable_extras,dev] mypy"),
       ShowDependencies,
       Run("Run mypy typecheck", TRUE, "mypy aeon/") >>

TypecheckSteps(c) ==
    << Checkout("Checkout"),
       SetupPython("Setup Python 3.12", "3.12"),
       Retry("Install aeon, dependencies and mypy", TRUE, 30, 3,
             "python -m pip install .[all_extras,unstable_extras,dev] mypy"),
       ShowDependencies,
       Run("Run mypy typecheck", TRUE, "mypy aeon/") >>

UpdateContributorsSteps(c) ==
    << Checkout("actions/checkout@v4"),
       Uses("actions/setup-node@v4", "success", TRUE, "actions/setup-node@v4"),
       Run("Setup all-contributors-cli", TRUE,
           "npm install -g all-contributors-cli"),
       Run("Generate CONTRIBUTORS.md", TRUE, "npx all-contributors generate"),
       Uses("actions/create-github-app-token@v2", "success", TRUE,
            "actions/create-github-app-token@v2"),
       CreatePullRequest("success", "update_contributors") >>

PrOpenedSteps(c) ==
    << Checkout("Checkout"),
       SetupPython("Setup Python 3.12", "3.12"),
       InstallPyGithub,
       CreateAppToken("success"),
       Run("Label pull request", TRUE, "python .github/utilities/pr_labeler.py"),
       Run("Write pull request comment", TRUE,
           "python .github/utilities/pr_open_commenter.py") >>

IssueCommentEditedSteps(c) ==
    << CreateAppToken("success"),
       Checkout("Checkout main"),
       SetupPython("Setup Python 3.12", "3.12"),
       InstallPyGithub,
       Run("Process comment edit", TRUE,
           "python .github/utilities/pr_welcome_edited.py"),
       Uses("Checkout head", "success", "empty_commit=true" \in c.payload,
            "actions/checkout@v4"),
       Uses("Push empty commit", "success", "empty_commit=true" \in c.payload,
            "stefanzweifel/git-auto-commit-action@v6") >>

IssueCommentPostedSteps(c) ==
    << Checkout("Checkout"),
       SetupPython("Setup Python 3.12", "3.12"),
       InstallPyGithub,
       CreateAppToken("success"),
       Run("Assign issue", TRUE, "python .github/utilities/issue_assign.py") >>

PrLabelledSteps(c) ==
    << CreateAppToken("success"),
       Checkout("Checkout main"),
       SetupPython("Setup Python 3.12", "3.12"),
       InstallPyGithub,
       Run("Process AI label", TRUE, "python .github/utilities/ai_spam.py") >>

IssueAssignedSteps(c) ==
    << CreateAppToken("success"),
       Checkout("Checkout main"),
       SetupPython("Setup Python 3.12", "3.12"),
       InstallPyGithub,
       Run("Process comment edit", TRUE,
           "python .github/utilities/remove_good_first_issue.py") >>

\* the steps of the job of context c, composite actions expanded in place
Steps(c) ==
    CASE c.workflow = "Periodic tests" -> PeriodicSteps(c)
      [] c.workflow = "PR pytest" -> PrPytestSteps(c)
      [] c.workflow = "Release" -> ReleaseSteps(c)
      [] c.workflow = "Weekly GitHub maintenance" -> WeeklySteps(c)
      [] c.workflow = "PR typecheck" -> TypecheckSteps(c)
      [] c.workflow = "Update contributors" -> UpdateContributorsSteps(c)
      [] c.workflow = "PR opened" -> PrOpenedSteps(c)
      [] c.workflow = "Issue comment edited" -> IssueCommentEditedSteps(c)
      [] c.workflow = "Issue comment posted" -> IssueCommentPostedSteps(c)
      [] c.workflow = "Pull request labelled" -> PrLabelledSteps(c)
      [] c.workflow = "Issue assigned" -> IssueAssignedSteps(c)

----------------------------------------------------------------------------
(* Workflows, their triggers, jobs and matrices.                           *)

Workflows ==
    {"Periodic tests", "PR pytest", "Release", "Weekly GitHub maintenance",
     "PR typecheck", "Update contributors", "PR opened",
     "Issue comment edited", "Issue comment posted", "Pull request labelled",
     "Issue assigned"}

\* the events of `on:`
Events(w) ==
    CASE w = "Periodic tests" -> {"schedule", "workflow_dispatch"}
      [] w = "PR pytest" -> {"push", "pull_request"}
      [] w = "Release" -> {"release", "workflow_dispatch"}
      [] w = "Weekly GitHub maintenance" -> {"schedule", "workflow_dispatch"}
      [] w = "PR typecheck" -> {"push", "pull_request"}
      [] w = "Update contributors" -> {"push"}
      [] w = "PR opened" -> {"pull_request_target"}
      [] w = "Issue comment edited" -> {"issue_comment"}
      [] w = "Issue comment posted" -> {"issue_comment"}
      [] w = "Pull request labelled" -> {"pull_request"}
      [] w = "Issue assigned" -> {"issues"}

Jobs(w) ==
    CASE w = "Periodic tests" ->
            {"check-manifest", "pre-commit", "run-notebook-examples",
             "test-core-imports", "test-no-soft-deps", "pytest", "doctests",
             "multithreaded-estimators", "codecov"}
      [] w = "PR pytest" ->
            {"test-no-soft-deps", "pytest", "doctests",
             "multithreaded-estimators", "codecov"}
      [] w = "Release" ->
            {"check-manifest", "build-project", "test-wheels", "upload-wheels"}
      [] w = "Weekly GitHub maintenance" ->
            {"pre-commit-auto-update", "teams-table-auto-update",
             "github-security-scorecard", "stale_branches"}
      [] w = "PR typecheck" -> {"typecheck"}
      [] w = "Update contributors" -> {"generate-markdown-and-commit"}
      [] w = "PR opened" -> {"labeler"}
      [] w = "Issue comment edited" -> {"pr-welcome-edited"}
      [] w = "Issue comment posted" -> {"self-assign"}
      [] w = "Pull request labelled" -> {"ai-pull-request"}
      [] w = "Issue assigned" -> {"remove-good-first-issue"}

HasMatrix(w, j) ==
    \/ w \in {"Periodic tests", "PR pytest"} /\ j = "pytest"
    \/ w = "Release" /\ j = "test-wheels"

\* strategy.matrix.os and strategy.matrix.python-version
MatrixOs(w, j) == {"ubuntu-24.04", "macOS-14", "windows-2022"}
\* a matrix that still lists Python 3.9
MatrixPythonVersionWith39(w, j) == {"3.9", "3.10", "3.11", "3.12", "3.13"}

MatrixPythonVersion(w, j) == {"3.10", "3.11", "3.12", "3.13"}

\* an exclude entry without the pr-testing key
MatrixExcludePython311(w, j, m) ==
    w = "PR pytest" /\ j = "pytest" /\ m.py = "3.11"

\* strategy.matrix.exclude, for a combination m
MatrixExclude(w, j, m) ==
    w = "PR pytest" /\ j = "pytest" /\ m.pr_testing = "true" /\ m.py = "3.11"

\* runs-on of a job without a matrix
RunsOn(w, j) ==
    IF w = "Periodic tests" /\ j = "run-notebook-examples"
    THEN "macos-14" ELSE "ubuntu-24.04"

\* the job instances of job j in a run of workflow w for event ev
Matrix(w, j, ev) ==
    IF HasMatrix(w, j)
    THEN LET pt == IF w = "PR pytest"
                   THEN ToStr(PrTesting(ev)) ELSE "" IN
         { m \in [os : MatrixOs(w, j), py : MatrixPythonVersion(w, j),
                  pr_testing : {pt}] : ~MatrixExclude(w, j, m) }
    ELSE {[os |-> RunsOn(w, j), py |-> "", pr_testing |-> ""]}

\* the pull request labels and event payload fields the workflows look at
LabelSets(w, e) ==
    IF e # "pull_request" THEN {{}}
    ELSE CASE w = "PR pytest" ->
                SUBSET {"no numba cache", "full pytest actions",
                        "codecov actions"}
           [] w = "PR typecheck" -> SUBSET {"run typecheck test"}
           [] OTHER -> {{}}

Payloads(w) ==
    CASE w = "Issue comment edited" ->
            SUBSET {"issue.pull_request", "empty_commit=true"}
      [] w = "Issue comment posted" -> SUBSET {"issue.pull_request"}
      [] w = "Pull request labelled" -> SUBSET {"label.name=AI pull request"}
      [] OTHER -> {{}}

Context(w, j, m, e, labels, payload) ==
    [workflow |-> w, job |-> j, os |-> m.os, py |-> m.py,
     pr_testing |-> m.pr_testing, event_name |-> e, labels |-> labels,
     payload |-> payload, additional_extras |-> ""]

NoContext ==
    [workflow |-> "", job |-> "", os |-> "", py |-> "", pr_testing |-> "",
     event_name |-> "", labels |-> {}, payload |-> {}, additional_extras |-> ""]

----------------------------------------------------------------------------
(* The environment file and the cache service.                             *)

EnvNames ==
    {"NUMBA_CACHE_DIR", "NUMBA_CPU_NAME", "NUMBA_CPU_FEATURES",
     "CACHING_CICD_RUNNING", "CURRENT_DATE", "NUMBA_DISABLE_JIT", "WHEELNAME"}

\* date +'%d/%m/%Y' on day d of January 2026
FormatDate(d) == (IF d < 10 THEN "0" ELSE "") \o ToString(d) \o "/01/2026"

\* what the shell puts for $(ls ./dist/aeon-*-none-any.whl): the wheel of
\* ./dist when there is one (bash prints the path as given, PowerShell the
\* full path), nothing otherwise; the echo succeeds in both cases
LsWheel(os, found) ==
    IF ~found THEN ""
    ELSE IF os = "Windows"
         THEN Workspace(os) \o "\\dist\\aeon-1.2.0-py3-none-any.whl"
         ELSE "./dist/aeon-1.2.0-py3-none-any.whl"

\* a key or command with ${{ env.CURRENT_DATE }} evaluated in environment e
Expand(text, e) ==
    IF EndsWith(text, EnvCurrentDate)
    THEN SubSeq(text, 1, Len(text) - Len(EnvCurrentDate)) \o e["CURRENT_DATE"]
    ELSE text

\* A cache entry is its key and, for reference, the job that saved it.
\* the key of the newest entry of store (oldest first) whose key starts with
\* prefix, or ""
RECURSIVE NewestWithPrefix(_, _)
NewestWithPrefix(store, prefix) ==
    IF store = <<>> THEN ""
    ELSE IF StartsWith(store[Len(store)].key, prefix) THEN store[Len(store)].key
    ELSE NewestWithPrefix(SubSeq(store, 1, Len(store) - 1), prefix)

InStore(store, key) == \E i \in 1..Len(store) : store[i].key = key

\* a restore that ignores restore-keys
CacheRestoreExactOnly(store, key, restore_keys) ==
    IF InStore(store, key) THEN key ELSE ""

\* actions/cache/restore: the exact key, else the newest entry the key is a
\* prefix of, else the newest entry a restore key is a prefix of, else a miss
CacheRestore(store, key, restore_keys) ==
    IF InStore(store, key) THEN key
    ELSE IF NewestWithPrefix(store, key) # ""
         THEN NewestWithPrefix(store, key)
    ELSE IF restore_keys # "" THEN NewestWithPrefix(store, restore_keys)
    ELSE ""

\* actions/cache/save: entries are immutable, an existing key is kept
CacheSave(store, key, by) ==
    IF InStore(store, key) THEN store
    ELSE Append(store, [key |-> key, by |-> by])

\* the save of key is within the bound on the entries of the cache
CanSave(store, key) == InStore(store, key) \/ Len(store) < MaxCache

\* the job of context c as the saver of a cache entry: workflow, job,
\* runner.os and the Python version that setup-python installed
Saver(c, ss) ==
    [workflow |-> c.workflow, job |-> c.job, os |-> RunnerOS(c.os),
     python_version |->
        LET I == {i \in 1..Len(ss) : ss[i].uses = "actions/setup-python@v5"}
        IN IF I = {} THEN "" ELSE ss[CHOOSE i \in I : TRUE].value]

----------------------------------------------------------------------------
(* The runner: one job at a time, step by step.                            *)

NoEnv == [v \in EnvNames |-> ""]

NoEvent == [name |-> "", branch |-> "", action |-> "", paths |-> {}]

NoComment == [user |-> "", assign |-> FALSE]

NoIssue == [assignees |-> {}, comment |-> NoComment]

NoArtifact == [by |-> "", files |-> {}]

NoRun == [event_name |-> "", jobs |-> <<>>, artifacts |-> [dist |-> NoArtifact],
          deployment |-> "", published |-> {}]

Init ==
    /\ ctx = NoContext
    /\ steps = <<>>
    /\ phase = "idle"
    /\ pc = 1
    /\ status = "success"
    /\ attempt = 0
    /\ env = NoEnv
    /\ ran = <<>>
    /\ restored = ""
    /\ cache = <<>>
    /\ today = 1
    /\ matrix = {}
    /\ wfruns = <<>>
    /\ event = NoEvent
    /\ triggered = {}
    /\ issue = NoIssue
    /\ X = <<>>
    /\ Xt = <<>>
    /\ transformer = ""
    /\ release = NoRun
    /\ hooks = {}

IsRetry(s) == s.uses = "nick-fields/retry@v3"
\* a run: step that only echoes a line into $GITHUB_ENV or %GITHUB_PATH%
IsSetEnv(s) == s.uses = "run" /\ StartsWith(s.command, "echo ")
IsRestore(s) == s.uses = "actions/cache/restore@v4"
IsSave(s) == s.uses = "actions/cache/save@v4"
\* run: python .github/utilities/issue_assign.py
IsAssignIssue(s) ==
    s.uses = "run" /\ s.command = "python .github/utilities/issue_assign.py"
IsPreCommit(s) == s.uses = "pre-commit/action@v3.0.1"
IsPlain(s) ==
    ~IsRetry(s) /\ ~IsSetEnv(s) /\ ~IsRestore(s) /\ ~IsSave(s)
        /\ ~IsAssignIssue(s) /\ ~IsPreCommit(s)

\* a runner that treats always() as success()
ShouldRunOnSuccess(s, st) == s.cond /\ st = "success"

\* the `if` of a step: the status check function and the rest of the condition
ShouldRun(s, st) == s.cond /\ (s.check = "always" \/ st = "success")

Running == phase = "running" /\ pc <= Len(steps)

\* the job status after a step failed
Failed(st) == IF st = "success" THEN "failure" ELSE st

Done(result) ==
    /\ ran' = [ran EXCEPT ![pc] = result]
    /\ pc' = pc + 1
    /\ attempt' = 0

\* the contexts of the jobs of workflow w
JobContexts(w) ==
    UNION {UNION {{Context(w, j, m, e, labels, payload) :
                      m \in Matrix(w, j, [event_name |-> e,
                                          labels |-> labels])} :
                  labels \in LabelSets(w, e)} :
           j \in Jobs(w), e \in Events(w), payload \in Payloads(w)}

\* the steps of every job, by context
JobSteps ==
    [c \in UNION {JobContexts(w) : w \in Workflows} |-> Steps(c)]

\* a run of job j of workflow w is created for event e
StartJob(w, j, e, labels, payload) ==
    /\ phase = "idle"
    /\ LET ms == Matrix(w, j, [event_name |-> e, labels |-> labels]) IN
       \E m \in ms :
          LET c == Context(w, j, m, e, labels, payload) IN
          /\ ctx' = c
          /\ steps' = JobSteps[c]
          /\ matrix' = ms
          /\ phase' = IF JobIf(c) THEN "running" ELSE "skipped"
          /\ ran' = [i \in 1..Len(JobSteps[c]) |-> "pending"]
    /\ pc' = 1
    /\ status' = "success"
    /\ attempt' = 0
    /\ env' = NoEnv
    /\ restored' = ""
    /\ UNCHANGED <<repoVars, cache, today, wfruns>>

\* a step whose `if` is false is skipped, and the job is at the next step
SkipStep ==
    /\ Running
    /\ ~ShouldRun(steps[pc], status)
    /\ Done("skipped")
    /\ UNCHANGED <<repoVars, ctx, steps, phase, status, env, restored, cache, today,
                   matrix, wfruns>>

\* a run: step or a third-party action succeeds or fails
PlainStep(ok) ==
    /\ Running
    /\ LET s == steps[pc] IN
       /\ IsPlain(s)
       /\ ShouldRun(s, status)
    /\ Done(IF ok THEN "ok" ELSE "failed")
    /\ status' = IF ok THEN status ELSE Failed(status)
    /\ UNCHANGED <<repoVars, ctx, steps, phase, env, restored, cache, today, matrix,
                   wfruns>>

\* echo "VAR=value" >> $GITHUB_ENV (or a line into %GITHUB_PATH%)
\* command substitutions are evaluated by the shell: the date of the day,
\* and the wheel found (or not) in ./dist
SetEnvStep(found) ==
    /\ Running
    /\ LET s == steps[pc] IN
       /\ IsSetEnv(s)
       /\ ShouldRun(s, status)
       /\ s.value # LsWheelCommand => found
       /\ env' = IF s.var \in EnvNames
                 THEN [env EXCEPT ![s.var] =
                          IF s.value = DateCommand THEN FormatDate(today)
                          ELSE IF s.value = LsWheelCommand
                          THEN LsWheel(RunnerOS(ctx.os), found)
                          ELSE s.value]
                 ELSE env
    /\ Done("ok")
    /\ UNCHANGED <<repoVars, ctx, steps, phase, status, restored, cache, today, matrix,
                   wfruns>>

Users == {"alice", "bob"}

\* the comments posted: by a user, asking to be assigned or not
Comments == [user : Users, assign : BOOLEAN]

\* an assign bot that does not look at what the comment was posted on
issue_assign_anywhere(payload, comment, assignees) ==
    IF comment.assign THEN assignees \cup {comment.user} ELSE assignees

\* .github/utilities/issue_assign.py: the assignees after the bot has
\* processed a comment; a comment on a pull request assigns nobody
issue_assign(payload, comment, assignees) ==
    IF "issue.pull_request" \in payload THEN assignees
    ELSE IF comment.assign THEN assignees \cup {comment.user}
    ELSE assignees

\* the Assign issue step of Issue comment posted runs the assign bot on the
\* comment of the event
AssignIssueStep(comment, ok) ==
    /\ Running
    /\ LET s == steps[pc] IN
       /\ IsAssignIssue(s)
       /\ ShouldRun(s, status)
    /\ issue' = IF ok
                THEN [assignees |->
                         issue_assign(ctx.payload, comment, issue.assignees),
                      comment |-> comment]
                ELSE issue
    /\ Done(IF ok THEN "ok" ELSE "failed")
    /\ status' = IF ok THEN status ELSE Failed(status)
    /\ UNCHANGED <<hooks, event, triggered, X, Xt, transformer, release, ctx, steps, phase,
                   env, restored, cache, today, matrix, wfruns>>

----------------------------------------------------------------------------
(* pre-commit: .pre-commit-config.yaml and the hooks a run selects.        *)

\* a check-manifest hook without stages
CheckManifestHookEveryStage == [id |-> "check-manifest", stages |-> {}]

\* - id: check-manifest, stages: [ manual ]
CheckManifestHook == [id |-> "check-manifest", stages |-> {"manual"}]

\* the ids of the hooks of .pre-commit-config.yaml, in the order of the
\* file
HookIds ==
    << "check-ast", "check-added-large-files", "check-case-conflict",
       "check-docstring-first", "check-merge-conflict", "check-symlinks",
       "check-toml", "check-yaml", "debug-statements", "end-of-file-fixer",
       "fix-byte-order-marker", "fix-encoding-pragma", "name-tests-test",
       "requirements-txt-fixer", "trailing-whitespace",
       "detect-missing-init", "ruff", "pyupgrade", "isort", "flake8",
       "black", "nbqa-isort", "nbqa-black", "nbqa-flake8", "check-manifest",
       "codespell" >>

\* the hooks of .pre-commit-config.yaml in the order of the file; stages is
\* {} for a hook that configures none
PreCommitConfig ==
    [k \in DOMAIN HookIds |->
        IF HookIds[k] = CheckManifestHook.id THEN CheckManifestHook
        ELSE [id |-> HookIds[k], stages |-> {}]]

\* the hooks of .pre-commit-config.yaml
PreCommitHooks == {PreCommitConfig[k] : k \in DOMAIN PreCommitConfig}

\* the stages of pre-commit
HookStages ==
    {"commit-msg", "post-checkout", "post-commit", "post-merge",
     "post-rewrite", "pre-commit", "pre-merge-commit", "pre-push",
     "pre-rebase", "prepare-commit-msg", "manual"}

\* a hook that configures no stages runs in every stage (the configuration
\* has no default_stages)
StagesOf(h) == IF h.stages = {} THEN HookStages ELSE h.stages

\* `pre-commit run <extra_args>`: the stage given with --hook-stage, else
\* pre-commit
HookStageArg(extra_args) ==
    LET given == {st \in HookStages :
                     \/ EndsWith(extra_args, "--hook-stage " \o st)
                     \/ Contains(extra_args, "--hook-stage " \o st \o " ")} IN
    IF given = {} THEN "pre-commit" ELSE CHOOSE st \in given : TRUE

\* `pre-commit run <extra_args>`: the hook id given as the first argument,
\* "" when the arguments start with an option
HookIdArg(extra_args) ==
    IF extra_args = "" \/ StartsWith(extra_args, "-") THEN ""
    ELSE LET spaces == {i \in 1..Len(extra_args) :
                           SubSeq(extra_args, i, i) = " "} IN
         IF spaces = {} THEN extra_args
         ELSE SubSeq(extra_args, 1,
                     (CHOOSE i \in spaces : \A k \in spaces : i <= k) - 1)

\* the hooks `pre-commit run <extra_args>` runs: those of the stage, and
\* only the one with the given id when one is given
HooksRun(config, extra_args) ==
    {h.id : h \in {g \in config :
                      /\ HookStageArg(extra_args) \in StagesOf(g)
                      /\ HookIdArg(extra_args) \in {"", g.id}}}

\* pre-commit runs the hooks it selected one after another, in the order
\* of the configuration: the hook that runs next when those of done have
\* run
NextHook(extra_args, done) ==
    LET left == {k \in DOMAIN PreCommitConfig :
                    /\ PreCommitConfig[k].id
                          \in HooksRun(PreCommitHooks, extra_args)
                    /\ PreCommitConfig[k].id \notin done}
    IN PreCommitConfig[CHOOSE k \in left : \A l \in left : k <= l].id

\* pre-commit/action: pre-commit run --show-diff-on-failure --color=always
\* <extra_args>; the step is in progress and the next hook runs
PreCommitHookRuns ==
    /\ Running
    /\ LET s == steps[pc] IN
       /\ IsPreCommit(s)
       /\ ShouldRun(s, status)
       /\ ~(HooksRun(PreCommitHooks, s.value) \subseteq hooks)
       /\ hooks' = hooks \cup {NextHook(s.value, hooks)}
    /\ UNCHANGED <<event, triggered, issue, X, Xt, transformer, release, ctx,
                   steps, phase, pc, status, attempt, env, ran, restored,
                   cache, today, matrix, wfruns>>

\* the pre-commit step ends: ok when every selected hook has run and
\* passed; failed before any hook has run (pre-commit or a hook environment
\* cannot be installed) or, the configuration having no fail_fast, after
\* all of them have run and one has failed
PreCommitStep(ok) ==
    /\ Running
    /\ LET s == steps[pc]
           selected == HooksRun(PreCommitHooks, s.value)
       IN
       /\ IsPreCommit(s)
       /\ ShouldRun(s, status)
       /\ ok => selected \subseteq hooks
       /\ ~ok => (selected \subseteq hooks \/ selected \cap hooks = {})
    /\ Done(IF ok THEN "ok" ELSE "failed")
    /\ status' = IF ok THEN status ELSE Failed(status)
    /\ UNCHANGED <<repoVars, ctx, steps, phase, env, restored, cache, today,
                   matrix, wfruns>>

\* an attempt count that is off by one
ExhaustedLate(s, n) == n > s.max_attempts

\* nick-fields/retry: no attempt is left after n attempts
Exhausted(s, n) == n >= s.max_attempts

\* nick-fields/retry: one attempt of the command; outcome is "ok", "fail"
\* (non-zero exit) or "timeout" (timeout_minutes elapsed)
\* the command installs the file named by WHEELNAME
InstallsWheelname(s) ==
    \/ Contains(s.command, "${{ env.WHEELNAME }}")
    \/ Contains(s.command, "${env:WHEELNAME}")

\* an attempt of the command ends ok, with a non-zero exit or by timeout;
\* pip install "[all_extras,dev]" (WHEELNAME empty) never ends ok
RetryAttempt(outcome) ==
    /\ Running
    /\ LET s == steps[pc] IN
       /\ IsRetry(s)
       /\ ShouldRun(s, status)
       /\ (outcome = "ok" /\ env["WHEELNAME"] = "") => ~InstallsWheelname(s)
       /\ IF outcome = "ok"
          THEN /\ Done("ok")
               /\ status' = status
          ELSE IF Exhausted(s, attempt + 1)
          THEN /\ Done("failed")
               /\ status' = Failed(status)
          ELSE /\ attempt' = attempt + 1
               /\ UNCHANGED <<ran, pc, status>>
    /\ UNCHANGED <<repoVars, ctx, steps, phase, env, restored, cache, today, matrix,
                   wfruns>>

\* actions/cache/restore@v4 (a miss does not fail the step)
RestoreStep ==
    /\ Running
    /\ LET s == steps[pc] IN
       /\ IsRestore(s)
       /\ ShouldRun(s, status)
       /\ restored' = CacheRestore(cache, Expand(s.key, env), s.restore_keys)
    /\ Done("ok")
    /\ UNCHANGED <<repoVars, ctx, steps, phase, status, env, cache, today, matrix, wfruns>>

\* actions/cache/save@v4
SaveStep ==
    /\ Running
    /\ LET s == steps[pc] IN
       /\ IsSave(s)
       /\ ShouldRun(s, status)
       /\ CanSave(cache, Expand(s.key, env))
       /\ cache' = CacheSave(cache, Expand(s.key, env), Saver(ctx, steps))
    /\ Done("ok")
    /\ UNCHANGED <<repoVars, ctx, steps, phase, status, env, restored, today, matrix,
                   wfruns>>

\* the run is cancelled while the job is in progress
Cancel ==
    /\ Running
    /\ status # "cancelled"
    /\ status' = "cancelled"
    /\ attempt' = 0
    /\ UNCHANGED <<repoVars, ctx, steps, phase, pc, env, ran, restored, cache, today,
                   matrix, wfruns>>

FinishJob ==
    /\ phase = "running"
    /\ pc > Len(steps)
    /\ phase' = "done"
    /\ UNCHANGED <<repoVars, ctx, steps, pc, status, attempt, env, ran, restored, cache, today,
                   matrix, wfruns>>

NextDay ==
    /\ today < MaxDay
    /\ today' = today + 1
    /\ UNCHANGED <<repoVars, ctx, steps, phase, pc, status, attempt, env, ran, restored, cache,
                   matrix, wfruns>>

StartAnyJob ==
    \E w \in Workflows : \E j \in Jobs(w), e \in Events(w) :
        \E labels \in LabelSets(w, e), payload \in Payloads(w) :
            StartJob(w, j, e, labels, payload)

Next ==
    \/ StartAnyJob
    \/ SkipStep
    \/ \E ok \in BOOLEAN : PlainStep(ok)
    \/ \E found \in BOOLEAN : SetEnvStep(found)
    \/ \E outcome \in {"ok", "fail", "timeout"} : RetryAttempt(outcome)
    \/ RestoreStep
    \/ SaveStep
    \/ \E comment \in Comments, ok \in BOOLEAN : AssignIssueStep(comment, ok)
    \/ PreCommitHookRuns
    \/ \E ok \in BOOLEAN : PreCommitStep(ok)
    \/ Cancel
    \/ FinishJob
    \/ NextDay

Spec == Init /\ [][Next]_vars

----------------------------------------------------------------------------
(* The numba cache across runs: one job is followed step by step while    *)
(* the day changes and jobs on other runners save, at any moment.          *)

\* the jobs with a cache restore or a cache save step
CacheJobs(w) ==
    CASE w = "Periodic tests" ->
            {"run-notebook-examples", "test-no-soft-deps", "pytest"}
      [] w = "PR pytest" ->
            {"test-no-soft-deps", "pytest", "doctests",
             "multithreaded-estimators"}

\* the position of a Python version in the list python-version of the
\* matrices
PythonIndex(py) ==
    CASE py = "3.10" -> 1 [] py = "3.11" -> 2 [] py = "3.12" -> 3
      [] py = "3.13" -> 4

\* the matrix combination m is within the bound on the Python versions
WithinMaxPythons(m) == m.py = "" \/ PythonIndex(m.py) <= MaxPythons

\* a run of either workflow is created for any event of its `on:`, for a
\* pull request with any of the labels, and the runner takes one of its
\* jobs
StartCacheJob ==
    \E w \in {"Periodic tests", "PR pytest"} :
        \E j \in CacheJobs(w), e \in Events(w) :
            \E labels \in LabelSets(w, e) :
                /\ StartJob(w, j, e, labels, {})
                /\ WithinMaxPythons(ctx')

\* the entry that instance m of job j of a Periodic tests run for event e
\* saves when it read the date on day d: the key of its Save new cache
\* step, and itself as the saver
PeriodicSave(j, m, e, d) ==
    LET c == Context("Periodic tests", j, m, e, {}, {})
        ss == Steps(c)
    IN [key |-> Expand(ss[CHOOSE k \in 1..Len(ss) : IsSave(ss[k])].key,
                       [NoEnv EXCEPT !["CURRENT_DATE"] = FormatDate(d)]),
        by |-> Saver(c, ss),
        day |-> d]

\* the entries that the jobs of Periodic tests save
PeriodicSaves ==
    UNION {{PeriodicSave(j, m, e, d) :
               m \in {n \in Matrix("Periodic tests", j,
                                   [event_name |-> e, labels |-> {}]) :
                         WithinMaxPythons(n)}} :
           j \in CacheJobs("Periodic tests"), e \in Events("Periodic tests"),
           d \in 1..MaxDay}

\* The jobs of a run, and the runs of the two workflows, execute side by
\* side, each on a runner of its own. While this runner takes its steps,
\* a Periodic tests job on another runner, which read the date on day
\* `day`, reaches its Save new cache step with every step before it
\* succeeded.
OtherRunnerSaves(entry) ==
    /\ entry.day <= today
    /\ ~InStore(cache, entry.key)
    /\ CanSave(cache, entry.key)
    /\ cache' = CacheSave(cache, entry.key, entry.by)
    /\ UNCHANGED <<repoVars, ctx, steps, phase, pc, status, attempt, env, ran,
                   restored, today, matrix, wfruns>>

\* the runner is free again for the next job
NextRun ==
    /\ phase = "done"
    /\ phase' = "idle"
    /\ ctx' = NoContext
    /\ steps' = <<>>
    /\ pc' = 1
    /\ status' = "success"
    /\ env' = NoEnv
    /\ ran' = <<>>
    /\ restored' = ""
    /\ matrix' = {}
    /\ UNCHANGED <<repoVars, attempt, cache, today, wfruns>>

NextCache ==
    \/ StartCacheJob
    \/ SkipStep
    \/ \E ok \in BOOLEAN : PlainStep(ok)
    \/ \E found \in BOOLEAN : SetEnvStep(found)
    \/ \E outcome \in {"ok", "fail", "timeout"} : RetryAttempt(outcome)
    \/ RestoreStep
    \/ SaveStep
    \/ FinishJob
    \/ NextRun
    \/ NextDay
    \/ \E entry \in PeriodicSaves : OtherRunnerSaves(entry)

SpecCache == Init /\ [][NextCache]_vars

----------------------------------------------------------------------------
(* Workflow runs and concurrency groups.                                   *)

\* groups keyed by github.ref alone
ConcurrencyGroupByRef(w, r) ==
    CASE w = "Periodic tests" -> w
      [] w \in {"PR pytest", "PR typecheck"} -> w \o "-" \o r.ref
      [] w = "Pull request labelled" -> w \o "-" \o ToString(r.number)
      [] w = "Issue comment edited" -> w \o "-" \o ToString(r.comment_id)
      [] w = "Issue assigned" -> w \o "-" \o ToString(r.issue_id)
      [] OTHER -> ""

\* concurrency.group of a run r of workflow w ("" when w declares none)
ConcurrencyGroup(w, r) ==
    CASE w = "Periodic tests" -> w
      [] w \in {"PR pytest", "PR typecheck"} ->
            w \o "-" \o ToStr(ExprOr(Str(r.head_ref), Str(r.ref)))
      [] w = "Pull request labelled" -> w \o "-" \o ToString(r.number)
      [] w = "Issue comment edited" -> w \o "-" \o ToString(r.comment_id)
      [] w = "Issue assigned" -> w \o "-" \o ToString(r.issue_id)
      [] OTHER -> ""

\* concurrency.cancel-in-progress
CancelInProgress(w) ==
    w \in {"Periodic tests", "PR pytest", "PR typecheck",
           "Pull request labelled", "Issue comment edited", "Issue assigned"}

\* the pull requests of the model: number and head branch
PullRequests ==
    {[number |-> 1, head_ref |-> "feature"], [number |-> 2, head_ref |-> "docs"],
     [number |-> 3, head_ref |-> "feature"]}

\* the github context of a run of workflow w for event e
RunContexts(w, e) ==
    IF e \in {"pull_request", "pull_request_target"}
    THEN {[workflow |-> w, event_name |-> e, head_ref |-> p.head_ref,
           ref |-> "refs/pull/" \o ToString(p.number) \o "/merge",
           number |-> p.number, comment_id |-> 0, issue_id |-> 0,
           state |-> "in_progress"] : p \in PullRequests}
    ELSE {[workflow |-> w, event_name |-> e, head_ref |-> "",
           ref |-> "refs/heads/main", number |-> 0,
           comment_id |-> IF e = "issue_comment" THEN k ELSE 0,
           issue_id |-> IF e = "issues" THEN k ELSE 0,
           state |-> "in_progress"] :
              k \in IF e \in {"issue_comment", "issues"} THEN {1, 2} ELSE {0}}

SameGroup(r1, r2) ==
    /\ ConcurrencyGroup(r1.workflow, r1) # ""
    /\ ConcurrencyGroup(r1.workflow, r1) = ConcurrencyGroup(r2.workflow, r2)

\* an event creates run r: the in-progress runs of its group are cancelled
Trigger(r) ==
    /\ Len(wfruns) < MaxWfRuns
    /\ wfruns' =
          Append([i \in 1..Len(wfruns) |->
                    IF /\ wfruns[i].state = "in_progress"
                       /\ SameGroup(wfruns[i], r)
                       /\ CancelInProgress(r.workflow)
                    THEN [wfruns[i] EXCEPT !.state = "cancelled"]
                    ELSE wfruns[i]],
                 r)
    /\ UNCHANGED <<repoVars, ctx, steps, phase, pc, status, attempt, env, ran, restored,
                   cache, today, matrix>>

\* run i finishes
Complete(i) ==
    /\ i \in 1..Len(wfruns)
    /\ wfruns[i].state = "in_progress"
    /\ wfruns' = [wfruns EXCEPT ![i].state = "completed"]
    /\ UNCHANGED <<repoVars, ctx, steps, phase, pc, status, attempt, env, ran, restored,
                   cache, today, matrix>>

ConcurrencyWorkflows ==
    {"Periodic tests", "PR pytest", "PR typecheck", "Release"}

NextConcurrency ==
    \/ \E w \in ConcurrencyWorkflows : \E e \in Events(w) :
          \E r \in RunContexts(w, e) : Trigger(r)
    \/ \E i \in 1..MaxWfRuns : Complete(i)

SpecConcurrency == Init /\ [][NextConcurrency]_vars

----------------------------------------------------------------------------
(* The composite action cpu_all_extras on its own, over its inputs.        *)

AdditionalExtras == {"", "dev", "unstable_extras,dev", "binder,dev"}

\* the `with` of a step that uses the action: each input given or left out
CpuAllExtrasWith ==
    {[python_version |-> p, additional_extras |-> x] :
        p \in MatrixPythonVersion("", ""), x \in AdditionalExtras}
    \cup {[additional_extras |-> x] : x \in AdditionalExtras}
    \cup {[python_version |-> p] : p \in MatrixPythonVersion("", "")}

\* a job on runner `label` reaches a step that uses cpu_all_extras
InvokeCpuAllExtras(label, with) ==
    /\ phase = "idle"
    /\ LET inputs == Inputs(cpu_all_extras_defaults, with) IN
       /\ ctx' = [NoContext EXCEPT !.job = "cpu_all_extras", !.os = label,
                                   !.py = inputs.python_version,
                                   !.additional_extras = inputs.additional_extras]
       /\ steps' = cpu_all_extras(with, RunnerOS(label), TRUE)
       /\ ran' = [i \in 1..3 |-> "pending"]
    /\ phase' = "running"
    /\ pc' = 1
    /\ status' = "success"
    /\ UNCHANGED <<repoVars, attempt, env, restored, cache, today, matrix, wfruns>>

NextCpuAllExtras ==
    \/ \E label \in MatrixOs("", ""), with \in CpuAllExtrasWith :
          InvokeCpuAllExtras(label, with)
    \/ SkipStep
    \/ \E outcome \in {"ok", "fail", "timeout"} : RetryAttempt(outcome)
    \/ Cancel
    \/ FinishJob

SpecCpuAllExtras == Init /\ [][NextCpuAllExtras]_vars

----------------------------------------------------------------------------
(* Events and the `on:` filters of the workflows.  An event has a name, an *)
(* activity type (action), a branch (the pushed branch, or the base branch *)
(* of the pull request) and the set of files it changes.                   *)

\* a trigger of `on:`; an empty types, branches or paths is a filter that
\* is not given
On(name, types, branches, paths) ==
    [name |-> name, types |-> types, branches |-> branches, paths |-> paths]

\* the activity types of pull_request when `types` is not given
DefaultPullRequestTypes == {"opened", "synchronize", "reopened"}

\* a pattern of a paths filter against a file: dir/** is everything under
\* dir/, a pattern without wildcard is the file itself
GlobMatches(glob, path) ==
    IF EndsWith(glob, "/**")
    THEN StartsWith(path, SubSeq(glob, 1, Len(glob) - 2))
    ELSE path = glob

\* a PR pytest that runs for pull requests into main only
PrPytestOnMainOnly ==
    {On("push", {}, {"main"}, {}),
     On("pull_request", {}, {"main"},
        {"aeon/**", ".github/workflows/**", "pyproject.toml"})}

PrPytestOn ==
    {On("push", {}, {"main"}, {}),
     On("pull_request", {}, {},
        {"aeon/**", ".github/workflows/**", "pyproject.toml"})}

WorkflowOn(w) ==
    CASE w = "Periodic tests" ->
            {On("schedule", {}, {}, {}), On("workflow_dispatch", {}, {}, {})}
      [] w = "PR pytest" -> PrPytestOn
      [] w = "Release" ->
            {On("release", {"published"}, {}, {}),
             On("workflow_dispatch", {}, {}, {})}
      [] w = "Weekly GitHub maintenance" ->
            {On("schedule", {}, {}, {}), On("workflow_dispatch", {}, {}, {})}
      [] w = "PR typecheck" ->
            {On("push", {}, {"main"}, {}),
             On("pull_request", {}, {}, {"aeon/**"})}
      [] w = "Update contributors" ->
            {On("push", {}, {"main"}, {".all-contributorsrc"})}
      [] w = "PR opened" -> {On("pull_request_target", {"opened"}, {}, {})}
      [] w = "Issue comment edited" -> {On("issue_comment", {"edited"}, {}, {})}
      [] w = "Issue comment posted" -> {On("issue_comment", {"created"}, {}, {})}
      [] w = "Pull request labelled" -> {On("pull_request", {"labeled"}, {}, {})}
      [] w = "Issue assigned" -> {On("issues", {"assigned"}, {}, {})}

\* the event passes the filters of trigger t
Passes(t, ev) ==
    /\ t.name = ev.name
    /\ IF t.types # {} THEN ev.action \in t.types
       ELSE ev.name \in {"pull_request", "pull_request_target"} =>
                ev.action \in DefaultPullRequestTypes
    /\ t.branches # {} => ev.branch \in t.branches
    /\ t.paths # {} =>
          \E f \in ev.paths : \E g \in t.paths : GlobMatches(g, f)

\* the event creates a run of workflow w
Triggers(w, ev) == \E t \in WorkflowOn(w) : Passes(t, ev)

Branches == {"main", "dev", "v1.2"}

Files ==
    {"aeon/base/_base.py", ".github/workflows/pr_pytest.yml", "pyproject.toml",
     "docs/index.md", ".all-contributorsrc"}

\* the events of the model
RepoEvents ==
    {[name |-> "push", action |-> "", branch |-> b, paths |-> fs] :
        b \in Branches, fs \in SUBSET Files \ {{}}}
    \cup
    {[name |-> "pull_request", action |-> a, branch |-> b, paths |-> fs] :
        a \in DefaultPullRequestTypes \cup {"labeled", "closed"},
        b \in Branches, fs \in SUBSET Files \ {{}}}
    \cup
    {[name |-> "pull_request_target", action |-> a, branch |-> b,
      paths |-> {"docs/index.md"}] :
        a \in {"opened", "synchronize"}, b \in Branches}
    \cup
    {[name |-> n, action |-> "", branch |-> "main", paths |-> {}] :
        n \in {"schedule", "workflow_dispatch"}}
    \cup
    {[name |-> "release", action |-> a, branch |-> "", paths |-> {}] :
        a \in {"published", "created"}}
    \cup
    {[name |-> "issue_comment", action |-> a, branch |-> "", paths |-> {}] :
        a \in {"created", "edited", "deleted"}}
    \cup
    {[name |-> "issues", action |-> a, branch |-> "", paths |-> {}] :
        a \in {"opened", "assigned"}}

\* GitHub delivers event ev: every workflow whose `on:` it passes gets a run
Deliver(ev) ==
    /\ event' = ev
    /\ triggered' = {w \in Workflows : Triggers(w, ev)}
    /\ UNCHANGED <<hooks, issue, X, Xt, transformer, release, ctx, steps, phase, pc, status, attempt, env, ran, restored,
                   cache, today, matrix, wfruns>>

NextTrigger == \E ev \in RepoEvents : Deliver(ev)

SpecTrigger == Init /\ [][NextTrigger]_vars

----------------------------------------------------------------------------
(* Unequal-length collections (examples/transformations notebook): a       *)
(* collection is a list of 2D arrays of shape (n_channels, n_timepoints_i) *)
(* and Padder and Truncator make it equal length.                          *)

\* a series of shape (n_channels, n): channel c holds 10c+1 .. 10c+n
Series(n_channels, n) ==
    [c \in 1..n_channels |-> [t \in 1..n |-> 10 * c + t]]

\* the collections of the model: up to MaxCases series with the same number
\* of channels and any lengths
Collections ==
    UNION { UNION { { [i \in 1..n |-> Series(ch, lens[i])] :
                        lens \in [1..n -> 1..MaxTimepoints] } :
                    n \in 1..MaxCases } :
            ch \in 1..MaxChannels }

\* n_timepoints of each series of the collection
Lengths(collection) ==
    {Len(collection[i][1]) : i \in 1..Len(collection)}

Max(S) == CHOOSE m \in S : \A k \in S : k <= m
Min(S) == CHOOSE m \in S : \A k \in S : m <= k

\* a padder that pads to the length of the first series
Padder_fit_transform_first(collection) ==
    LET L == Len(collection[1][1]) IN
    [i \in 1..Len(collection) |->
        [c \in DOMAIN collection[i] |->
            IF Len(collection[i][c]) >= L THEN collection[i][c]
            ELSE collection[i][c]
                    \o [t \in 1..(L - Len(collection[i][c])) |-> 0]]]

\* Padder().fit_transform: every series padded at its end with the fill
\* value 0 to the length of the longest series seen in fit
Padder_fit_transform(collection) ==
    LET L == Max(Lengths(collection)) IN
    [i \in 1..Len(collection) |->
        [c \in DOMAIN collection[i] |->
            collection[i][c]
                \o [t \in 1..(L - Len(collection[i][c])) |-> 0]]]

\* Truncator().fit_transform: every series cut to the length of the
\* shortest series seen in fit
Truncator_fit_transform(collection) ==
    LET L == Min(Lengths(collection)) IN
    [i \in 1..Len(collection) |->
        [c \in DOMAIN collection[i] |-> SubSeq(collection[i][c], 1, L)]]

\* the notebook loads a collection
LoadCollection(collection) ==
    /\ X = <<>>
    /\ X' = collection
    /\ UNCHANGED <<hooks, Xt, transformer, event, triggered, issue, release, ctx, steps, phase,
                   pc, status, attempt, env, ran, restored, cache, today,
                   matrix, wfruns>>

\* the notebook calls fit_transform of a Padder or a Truncator on it
FitTransform(t) ==
    /\ X # <<>>
    /\ transformer = ""
    /\ transformer' = t
    /\ Xt' = IF t = "Padder" THEN Padder_fit_transform(X)
             ELSE Truncator_fit_transform(X)
    /\ UNCHANGED <<hooks, X, event, triggered, issue, release, ctx, steps, phase, pc, status,
                   attempt, env, ran, restored, cache, today, matrix, wfruns>>

NextUnequalLength ==
    \/ \E collection \in Collections : LoadCollection(collection)
    \/ \E t \in {"Padder", "Truncator"} : FitTransform(t)

SpecUnequalLength == Init /\ [][NextUnequalLength]_vars

----------------------------------------------------------------------------
(* A run of the Release workflow: its jobs, ordered by `needs`, the        *)
(* artifacts they exchange and the distribution that is published.         *)

\* strategy.fail-fast of a matrix job
FailFast(w, j) == FALSE

\* a Release whose upload-wheels forgot its needs
NeedsNoneForUpload(w, j) ==
    IF w = "Release" /\ j = "build-project" THEN {"check-manifest"}
    ELSE IF w = "Release" /\ j = "test-wheels" THEN {"build-project"}
    ELSE {}

\* jobs.<job>.needs
Needs(w, j) ==
    IF w = "Release" /\ j = "build-project" THEN {"check-manifest"}
    ELSE IF w = "Release" /\ j = "test-wheels" THEN {"build-project"}
    ELSE IF w = "Release" /\ j = "upload-wheels" THEN {"test-wheels"}
    ELSE {}

\* the job instances of a run of workflow w for event e: one per job, one
\* per matrix combination for a matrix job
JobInstances(w, e) ==
    UNION { {[job |-> j, os |-> m.os, py |-> m.py] :
                m \in Matrix(w, j, [event_name |-> e, labels |-> {}])} :
            j \in Jobs(w) }

\* what the steps ss of a job do: check the repository out, run pre-commit
\* hooks, build a distribution, store one as an artifact, download
\* artifacts, install aeon from the wheel in ./dist or from the checkout,
\* run the tests, publish ./dist
JobPlan(ss) ==
    LET I == {i \in 1..Len(ss) : ss[i].cond}
        wheelname == \E i \in I :
                        /\ ss[i].var = "WHEELNAME"
                        /\ StartsWith(ss[i].value, "$(ls ./dist/")
    IN
    [extra_args |-> IF \E i \in I : IsPreCommit(ss[i])
                    THEN ss[CHOOSE i \in I : IsPreCommit(ss[i])].value
                    ELSE "",
     hooks |-> UNION {HooksRun(PreCommitHooks, ss[i].value) :
                         i \in {k \in I : IsPreCommit(ss[k])}},
     checkout |-> \E i \in I : StartsWith(ss[i].uses, "actions/checkout@"),
     tests |-> IF \E i \in I : ss[i].name = "Tests"
               THEN ss[CHOOSE i \in I : ss[i].name = "Tests"].command
               ELSE "",
     builds |-> \E i \in I : Contains(ss[i].command, "python -m build"),
     stores |-> {ss[i].value : i \in {k \in I :
                    ss[k].uses = "actions/upload-artifact@v4"}},
     downloads |-> {ss[i].value : i \in {k \in I :
                    ss[k].uses = "actions/download-artifact@v4"}},
     installs |->
        IF \E i \in I : Contains(ss[i].command, "pip install .")
        THEN "checkout"
        ELSE IF wheelname /\ \E i \in I :
                                Contains(ss[i].command, "WHEELNAME")
        THEN "wheel"
        ELSE "",
     publishes |-> \E i \in I :
                      ss[i].uses = "pypa/gh-action-pypi-publish@release/v1"]

\* the plan of each job instance of a Release run
ReleasePlan ==
    [i \in JobInstances("Release", "release") |->
        JobPlan(ReleaseSteps(
            Context("Release", i.job, [os |-> i.os, py |-> i.py,
                                       pr_testing |-> ""],
                    "release", {}, {})))]

\* the release event (or a manual dispatch) creates a run with every job
\* pending: queued or in progress, not ended
TriggerRelease(e) ==
    /\ release = NoRun
    /\ release' = [event_name |-> e,
                   jobs |-> [i \in JobInstances("Release", e) |->
                               [result |-> "pending", installed |-> "", tested |-> ""]],
                   artifacts |-> [dist |-> NoArtifact],
                   deployment |-> "",
                   published |-> {}]
    /\ UNCHANGED <<hooks, event, triggered, issue, X, Xt, transformer, ctx, steps,
                   phase, pc, status, attempt, env, ran, restored, cache,
                   today, matrix, wfruns>>

\* the job instances of a Release run
ReleaseInstances == JobInstances("Release", "release")

\* for each job instance of a Release run, the instances of the jobs it
\* needs
ReleaseNeeds ==
    [i \in ReleaseInstances |->
        {k \in ReleaseInstances : k.job \in Needs("Release", i.job)}]

\* the instances of the jobs that instance i needs
NeededInstances(i) == ReleaseNeeds[i]

\* at most this many job instances of one run end in failure
MaxFailures == 1

\* the job instances of the run that have failed
FailedInstances == {i \in DOMAIN release.jobs : release.jobs[i].result = "failure"}

\* the files `python -m build` leaves in ./dist: the sdist and the wheel
BuildOutputs == {"aeon-1.2.0.tar.gz", "aeon-1.2.0-py3-none-any.whl"}

\* ls aeon-*-none-any.whl over the files of a directory: the names made
\* of "aeon-", any characters, and "-none-any.whl", one after the other
Wheels(files) ==
    {f \in files : /\ Len(f) >= Len("aeon-") + Len("-none-any.whl")
                   /\ StartsWith(f, "aeon-")
                   /\ EndsWith(f, "-none-any.whl")}

\* the files of the artifact of this run called name; none when no job
\* has stored it
ArtifactFiles(name) ==
    IF name = "dist" THEN release.artifacts.dist.files ELSE {}

\* ./dist of job instance i once its build and download steps have run
Dist(i) ==
    IF ReleasePlan[i].builds THEN BuildOutputs
    ELSE UNION {ArtifactFiles(n) : n \in ReleasePlan[i].downloads}

\* every step of job instance i can succeed: download-artifact finds the
\* artifact it names and the install finds a wheel in ./dist
CanSucceed(i) ==
    /\ \A n \in ReleasePlan[i].downloads : ArtifactFiles(n) # {}
    /\ ReleasePlan[i].installs = "wheel" => Wheels(Dist(i)) # {}

\* what job instance i has installed once its install step succeeded: the
\* wheel of ./dist named by WHEELNAME, or the checkout
Installed(i) ==
    IF ReleasePlan[i].installs = "wheel"
    THEN CHOOSE f \in Wheels(Dist(i)) : TRUE
    ELSE ReleasePlan[i].installs

\* the packages at the root of the repository
CheckoutPackages == {"aeon"}

\* The Tests step has no working-directory, so it runs in the workspace,
\* where the Checkout step has put the repository. `python -m` puts the
\* working directory first on sys.path: a package at the root of the
\* checkout is imported from there, before the one installed in
\* site-packages.
ImportsFromCheckout(plan, pkg) ==
    /\ plan.checkout
    /\ pkg \in CheckoutPackages
    /\ StartsWith(plan.tests, "python -m ")

\* what the tests of job instance i ran against when they passed: the
\* package aeon they imported, which is the checkout's or the installed one
Tested(i) ==
    IF ImportsFromCheckout(ReleasePlan[i], "aeon") THEN "checkout"
    ELSE Installed(i)

\* job instance i may be in progress: it has not ended, and every job it
\* needs has succeeded
MayBeInProgress(i) ==
    /\ release.jobs[i].result = "pending"
    /\ \A k \in NeededInstances(i) : release.jobs[k].result = "success"

\* jobs.<job>.environment.name
Environment(w, j) ==
    IF w = "Release" /\ j = "upload-wheels" THEN "release" ELSE ""

\* A job that names an environment starts once the protection rules of
\* that environment, which are repository settings, let the deployment
\* pass; a rejected deployment fails the job before any step has run.
DeploymentReviewed(i, approved) ==
    /\ release # NoRun
    /\ i \in DOMAIN release.jobs
    /\ Environment("Release", i.job) # ""
    /\ MayBeInProgress(i)
    /\ release.deployment = ""
    /\ ~approved => Cardinality(FailedInstances) < MaxFailures
    /\ release' = IF approved
                  THEN [release EXCEPT !.deployment = "approved"]
                  ELSE [release EXCEPT !.deployment = "rejected",
                                       !.jobs[i].result = "failure"]
    /\ UNCHANGED <<hooks, event, triggered, issue, X, Xt, transformer, ctx, steps,
                   phase, pc, status, attempt, env, ran, restored, cache,
                   today, matrix, wfruns>>

\* job instance i is in progress or about to be: it has not ended, every
\* job it needs has succeeded and its deployment, if any, is approved
InProgress(i) ==
    /\ release # NoRun
    /\ i \in DOMAIN release.jobs
    /\ MayBeInProgress(i)
    /\ Environment("Release", i.job) # "" => release.deployment = "approved"

\* the pre-commit step of job instance i, which is in progress, runs the
\* next of its hooks
PreCommitRuns(i) ==
    /\ InProgress(i)
    /\ ~(ReleasePlan[i].hooks \subseteq hooks)
    /\ hooks' = hooks \cup {NextHook(ReleasePlan[i].extra_args, hooks)}
    /\ UNCHANGED <<release, event, triggered, issue, X, Xt, transformer, ctx,
                   steps, phase, pc, status, attempt, env, ran, restored,
                   cache, today, matrix, wfruns>>

\* the upload-artifact step of job instance i, which is in progress,
\* stores ./dist as the artifact dist; the job goes on after it
ArtifactStored(i) ==
    /\ InProgress(i)
    /\ "dist" \in ReleasePlan[i].stores
    /\ ReleasePlan[i].hooks \subseteq hooks
    /\ release.artifacts.dist = NoArtifact
    /\ release' = [release EXCEPT
                     !.artifacts = [dist |-> [by |-> i.job,
                                              files |-> Dist(i)]]]
    /\ UNCHANGED <<hooks, event, triggered, issue, X, Xt, transformer, ctx, steps,
                   phase, pc, status, attempt, env, ran, restored, cache,
                   today, matrix, wfruns>>

\* the publish step of job instance i, which is in progress and has
\* downloaded ./dist, uploads the files of ./dist one by one: f is the next
FilePublished(i, f) ==
    /\ InProgress(i)
    /\ ReleasePlan[i].publishes
    /\ CanSucceed(i)
    /\ f \in Dist(i) \ release.published
    /\ release' = [release EXCEPT !.published = @ \cup {f}]
    /\ UNCHANGED <<hooks, event, triggered, issue, X, Xt, transformer, ctx, steps,
                   phase, pc, status, attempt, env, ran, restored, cache,
                   today, matrix, wfruns>>

\* the steps of job instance i have had their effects: its hooks have run,
\* its artifact is stored, the files of ./dist are published
EffectsDone(i) ==
    /\ ReleasePlan[i].hooks \subseteq hooks
    /\ "dist" \in ReleasePlan[i].stores => release.artifacts.dist.by = i.job
    /\ ReleasePlan[i].publishes => Dist(i) \subseteq release.published

\* job instance i, in progress, ends: with success when all its steps
\* succeeded, else with failure, at whichever step it was
JobRuns(i, ok) ==
    /\ InProgress(i)
    /\ ok => (CanSucceed(i) /\ EffectsDone(i))
    /\ ~ok => Cardinality(FailedInstances) < MaxFailures
    /\ release' =
          IF ok
          THEN [release EXCEPT
                  !.jobs[i] = [result |-> "success",
                               installed |-> Installed(i),
                               tested |-> Tested(i)]]
          ELSE [release EXCEPT
                  !.jobs = [k \in DOMAIN release.jobs |->
                              IF k = i
                              THEN [result |-> "failure", installed |-> "", tested |-> ""]
                              ELSE IF /\ FailFast("Release", i.job)
                                      /\ k.job = i.job
                                      /\ release.jobs[k].result = "pending"
                              THEN [result |-> "cancelled", installed |-> "", tested |-> ""]
                              ELSE release.jobs[k]]]
    /\ UNCHANGED <<hooks, event, triggered, issue, X, Xt, transformer, ctx, steps,
                   phase, pc, status, attempt, env, ran, restored, cache,
                   today, matrix, wfruns>>

\* job instance i is skipped: a job it needs has ended without success
JobSkipped(i) ==
    /\ release # NoRun
    /\ i \in DOMAIN release.jobs
    /\ release.jobs[i].result = "pending"
    /\ \A k \in NeededInstances(i) : release.jobs[k].result # "pending"
    /\ \E k \in NeededInstances(i) : release.jobs[k].result # "success"
    /\ release' = [release EXCEPT !.jobs[i].result = "skipped"]
    /\ UNCHANGED <<hooks, event, triggered, issue, X, Xt, transformer, ctx, steps,
                   phase, pc, status, attempt, env, ran, restored, cache,
                   today, matrix, wfruns>>

\* the run is cancelled: every job that has not ended is cancelled,
\* wherever it is; what the steps of a job in progress had done stays done
CancelRun ==
    /\ release # NoRun
    /\ \E i \in DOMAIN release.jobs : release.jobs[i].result = "pending"
    /\ release' = [release EXCEPT
                     !.jobs = [k \in DOMAIN release.jobs |->
                                 IF release.jobs[k].result = "pending"
                                 THEN [result |-> "cancelled", installed |-> "", tested |-> ""]
                                 ELSE release.jobs[k]]]
    /\ UNCHANGED <<hooks, event, triggered, issue, X, Xt, transformer, ctx, steps,
                   phase, pc, status, attempt, env, ran, restored, cache,
                   today, matrix, wfruns>>

NextRelease ==
    \/ \E e \in Events("Release") : TriggerRelease(e)
    \/ \E i \in ReleaseInstances : PreCommitRuns(i)
    \/ \E i \in ReleaseInstances : ArtifactStored(i)
    \/ \E i \in ReleaseInstances, f \in BuildOutputs : FilePublished(i, f)
    \/ \E i \in ReleaseInstances, ok \in BOOLEAN : JobRuns(i, ok)
    \/ \E i \in ReleaseInstances, approved \in BOOLEAN :
          DeploymentReviewed(i, approved)
    \/ \E i \in ReleaseInstances : JobSkipped(i)
    \/ CancelRun

SpecRelease == Init /\ [][NextRelease]_vars

----------------------------------------------------------------------------
(* Properties.                                                             *)

HasStep(name) == \E i \in 1..Len(steps) : steps[i].name = name
StepIndex(name) == CHOOSE i \in 1..Len(steps) : steps[i].name = name
Executed(i) == ran[i] \in {"ok", "failed"}

\* C6: the Install dependencies command of cpu_all_extras is
\* `pip install .[all_extras]` when additional_extras is empty and
\* `pip install .[all_extras,<additional_extras>]` otherwise, so the extras
\* list has the separating comma exactly when there are additional extras.
ExtrasListWellFormed ==
    (phase # "idle" /\ ctx.job = "cpu_all_extras") =>
        LET command == steps[StepIndex("Install dependencies")].command IN
        /\ ctx.additional_extras = "" =>
              command = "python -m pip install .[all_extras]"
        /\ ctx.additional_extras # "" =>
              command = "python -m pip install .[all_extras,"
                            \o ctx.additional_extras \o "]"
        /\ ~Contains(command, ",]")
        /\ Contains(command, "all_extras,") <=> ctx.additional_extras # ""

\* C6 witness: the install ran with no additional extras
ExtrasListEmptyInstalled ==
    /\ ctx.job = "cpu_all_extras"
    /\ ctx.additional_extras = ""
    /\ ran[StepIndex("Install dependencies")] = "ok"
    /\ EndsWith(steps[StepIndex("Install dependencies")].command, ".[all_extras]")

\* C7: in cpu_all_extras (not cancelled), the CPU TensorFlow install runs iff
\* the runner is Linux and python_version is not 3.13; the CPU PyTorch install
\* runs iff the runner is Linux (and TensorFlow did not fail); the all_extras
\* install runs on every OS when no CPU install failed; a CPU install that ran
\* has succeeded before the all_extras install starts, and after a failed CPU
\* install the all_extras install does not run.
CpuInstallsBeforeAllExtras ==
    (phase # "idle" /\ ctx.job = "cpu_all_extras") =>
        LET tf == StepIndex("Install CPU TensorFlow")
            pt == StepIndex("Install CPU PyTorch")
            ae == StepIndex("Install dependencies")
            linux == RunnerOS(ctx.os) = "Linux"
        IN
        /\ (pc > tf /\ status # "cancelled") =>
              (Executed(tf) <=> (linux /\ ctx.py # "3.13"))
        /\ (pc > pt /\ status # "cancelled" /\ ran[tf] # "failed") =>
              (Executed(pt) <=> linux)
        /\ (pc > ae /\ status # "cancelled"
              /\ ran[tf] # "failed" /\ ran[pt] # "failed") => Executed(ae)
        /\ (Executed(ae) \/ (pc = ae /\ attempt > 0)) =>
              /\ ran[tf] \in {"ok", "skipped"}
              /\ ran[pt] \in {"ok", "skipped"}
        /\ (ran[tf] = "failed" \/ ran[pt] = "failed") =>
              /\ ran[ae] \in {"pending", "skipped"}
              /\ ~(pc = ae /\ attempt > 0)

\* C7 witness: on Linux with Python 3.13 TensorFlow was skipped, PyTorch was
\* installed and then the all_extras install ran
CpuInstallsLinux313 ==
    /\ ctx.job = "cpu_all_extras"
    /\ RunnerOS(ctx.os) = "Linux"
    /\ ctx.py = "3.13"
    /\ ran[1] = "skipped"
    /\ ran[2] = "ok"
    /\ ran[3] = "ok"


NumbaEnv ==
    {"NUMBA_CACHE_DIR", "NUMBA_CPU_NAME", "NUMBA_CPU_FEATURES",
     "CACHING_CICD_RUNNING"}

\* the job invoked numba_cache and the action has finished, uncancelled
NumbaCacheInvoked ==
    /\ phase \in {"running", "done"}
    /\ HasStep("Restore cache")
    /\ pc > StepIndex("Restore cache")
    /\ ran[StepIndex("Set numba cache env")] = "ok"
    /\ status # "cancelled"

\* C2: every invocation of numba_cache sets the four environment variables
\* for the rest of the job whatever restore_cache is; the Restore cache step
\* runs iff restore_cache is 'true' (the default, used by PR pytest), and with
\* restore_cache 'false' the variables are set and nothing is restored.
NumbaEnvAlwaysSet ==
    NumbaCacheInvoked =>
        LET restore == StepIndex("Restore cache") IN
        /\ \A v \in NumbaEnv : env[v] # ""
        /\ env["NUMBA_CPU_NAME"] = "generic"
        /\ env["CACHING_CICD_RUNNING"] = "1"
        /\ Executed(restore) <=> steps[restore].value = "true"
        /\ steps[restore].value # "true" =>
              (ran[restore] = "skipped" /\ restored = "")
        /\ ctx.workflow = "PR pytest" => steps[restore].value = "true"

\* C2 witness: a job that passes restore_cache 'false' has finished with the
\* variables set and the restore step skipped
NumbaEnvSetWithoutRestore ==
    /\ NumbaCacheInvoked
    /\ phase = "done"
    /\ steps[StepIndex("Restore cache")].value = "false"
    /\ ran[StepIndex("Restore cache")] = "skipped"
    /\ \A v \in NumbaEnv : env[v] # ""

\* C3: a retry step makes at most 3 attempts (of at most 30 minutes), one
\* after another; a successful attempt ends the step with no further attempt;
\* the step, and with it the job, fails only on the failure of the 3rd attempt.
RetryAtMostThreeAttempts ==
    /\ [](Running /\ IsRetry(steps[pc]) =>
            /\ attempt < 3
            /\ steps[pc].max_attempts = 3
            /\ steps[pc].timeout_minutes = 30)
    /\ [][(Running /\ IsRetry(steps[pc])) =>
            /\ ran'[pc] = "ok" => (pc' = pc + 1 /\ status' = status)
            /\ ran'[pc] = "failed" => (attempt = 2 /\ status' = "failure")
            /\ attempt' > attempt =>
                  (attempt' = attempt + 1 /\ pc' = pc /\ ran' = ran
                     /\ status' = status)]_vars

\* C3 witness: a retry step has failed, and so has the job
RetryStepFailed ==
    /\ phase = "done"
    /\ status = "failure"
    /\ \E i \in 1..Len(steps) : IsRetry(steps[i]) /\ ran[i] = "failed"

\* the command pip-installs aeon from the source tree or from the built wheel
PipInstallsAeon(command) ==
    \/ Contains(command, "pip install .")
    \/ Contains(command, "pip install \"$")

\* C4: every step of every job that pip-installs aeon is a retry step with
\* max_attempts 3 and timeout_minutes 30.
AeonInstallsRetried ==
    \A i \in 1..Len(steps) :
        PipInstallsAeon(steps[i].command) =>
            /\ IsRetry(steps[i])
            /\ steps[i].max_attempts = 3
            /\ steps[i].timeout_minutes = 30

\* C4 witness: a job is installing the built wheel under the retry wrapper
WheelInstallRunning ==
    /\ Running
    /\ Contains(steps[pc].command, "WHEELNAME")
    /\ IsRetry(steps[pc])
    /\ attempt = 1

\* C9: in the weekly pre-commit-auto-update job the Create app token step and
\* the create-pull-request step (branch pre-commit-hooks-update) are executed
\* whatever happened to the steps before them.
PreCommitPullRequestAlways ==
    (ctx.workflow = "Weekly GitHub maintenance"
        /\ ctx.job = "pre-commit-auto-update") =>
        LET token == StepIndex("Create app token")
            pr == StepIndex("peter-evans/create-pull-request@v7") IN
        /\ token < pr
        /\ steps[pr].value = "pre-commit-hooks-update"
        /\ pc > token => Executed(token)
        /\ pc > pr => Executed(pr)
        /\ phase = "done" => (Executed(token) /\ Executed(pr))

\* C9 witness: the autoupdate step failed and both steps were executed
PreCommitPullRequestAfterFailure ==
    /\ ctx.job = "pre-commit-auto-update"
    /\ phase = "done"
    /\ ran[3] = "failed"
    /\ ran[4] = "ok"
    /\ ran[5] = "ok"

SupportedPython == {"3.10", "3.11", "3.12", "3.13"}

\* C10: the pytest matrix of Periodic tests and the test-wheels matrix of
\* Release are exactly the 12 combinations of Python 3.10-3.13 with
\* ubuntu-24.04, macOS-14 and windows-2022, and no job sets up Python 3.9.
MatricesCoverSupportedPython ==
    /\ ((ctx.workflow = "Periodic tests" /\ ctx.job = "pytest")
          \/ (ctx.workflow = "Release" /\ ctx.job = "test-wheels")) =>
          /\ {<<m.os, m.py>> : m \in matrix} =
                {"ubuntu-24.04", "macOS-14", "windows-2022"} \X SupportedPython
          /\ Cardinality(matrix) = 12
          /\ <<ctx.os, ctx.py>> \in {<<m.os, m.py>> : m \in matrix}
    /\ ctx.py # "3.9"
    /\ \A i \in 1..Len(steps) :
          steps[i].uses = "actions/setup-python@v5" =>
              (steps[i].value \in SupportedPython /\ steps[i].value # "3.9")

\* C10 witness: the Release test-wheels job for Python 3.13 on windows-2022
\* has set up its Python
TestWheels313OnWindows ==
    /\ ctx.workflow = "Release"
    /\ ctx.job = "test-wheels"
    /\ ctx.os = "windows-2022"
    /\ ctx.py = "3.13"
    /\ ran[2] = "ok"
    /\ steps[2].value = "3.13"


\* the Restore cache step of the current job has been executed
RestoreDone ==
    /\ phase \in {"running", "done"}
    /\ HasStep("Restore cache")
    /\ Executed(StepIndex("Restore cache"))

\* the cache_name a job passes to numba_cache: its own name in Periodic
\* tests and PR pytest, "release" in test-wheels of Release
CacheName(c) == IF c.workflow = "Release" THEN "release" ELSE c.job

\* numba-<cache_name>-<runner_os>-<python_version>- for the current job
DatelessPrefix ==
    "numba-" \o CacheName(ctx) \o "-" \o RunnerOS(ctx.os) \o "-"
        \o Saver(ctx, steps).python_version \o "-"

\* the step from the current state executes the Restore cache step of
\* the job
RestoreTaken ==
    /\ Running
    /\ IsRestore(steps[pc])
    /\ steps[pc].name = "Restore cache"
    /\ pc' = pc + 1
    /\ ran'[pc] # "skipped"

\* C1: with restore_cache 'true' the restore step restores the cache whose key
\* is exactly numba-<cache_name>-<runner_os>-<python_version>-<CURRENT_DATE>
\* when there is one; only otherwise a cache whose key starts with the
\* date-less prefix; with neither nothing is restored and the step succeeds.
\* The caches are those in the repository's cache when the step runs.
RestoreExactThenDateless ==
    /\ [](RestoreDone =>
            /\ steps[StepIndex("Restore cache")].value = "true"
            /\ ran[StepIndex("Restore cache")] = "ok"
            /\ env["CURRENT_DATE"] # ""
            /\ restored # "" =>
                  /\ InStore(cache, restored)
                  /\ StartsWith(restored, DatelessPrefix))
    /\ [][RestoreTaken =>
            LET exact == DatelessPrefix \o env["CURRENT_DATE"]
                fallback == {i \in 1..Len(cache) :
                                StartsWith(cache[i].key, DatelessPrefix)}
            IN
            /\ InStore(cache, exact) => restored' = exact
            /\ (~InStore(cache, exact) /\ fallback # {}) =>
                  \E i \in fallback : restored' = cache[i].key
            /\ fallback = {} => restored' = ""
            /\ ran'[pc] = "ok"
            /\ status' = "success"]_vars

\* C1 witness: a cache of an earlier save and the one with today's key
\* both matched when the step ran, and the one with today's key was
\* restored
RestoredExactOverOlder ==
    /\ RestoreDone
    /\ restored = DatelessPrefix \o env["CURRENT_DATE"]
    /\ \E i, j \in 1..Len(cache) :
          /\ i < j
          /\ cache[j].key = restored
          /\ StartsWith(cache[i].key, DatelessPrefix)

\* the entry was saved by the Periodic tests job with the cache name, runner
\* OS and Python version of the current job
SavedByPeriodicTwin(entry) ==
    /\ entry.by.workflow = "Periodic tests"
    /\ entry.by.job = ctx.job
    /\ entry.by.os = RunnerOS(ctx.os)
    /\ entry.by.python_version = Saver(ctx, steps).python_version

\* C8: a PR pytest job that restores finds a cache whenever the Periodic tests
\* job with its cache name, OS and Python version has saved one (the very
\* entry when it was saved on the same date), and whatever it restores was
\* saved by that job, never by a job that differs in one of the three.
PeriodicCacheRestoredByTwin ==
    /\ []((RestoreDone /\ ctx.workflow = "PR pytest" /\ restored # "") =>
            \E i \in 1..Len(cache) :
                cache[i].key = restored /\ SavedByPeriodicTwin(cache[i]))
    /\ [][(RestoreTaken /\ ctx.workflow = "PR pytest") =>
            /\ \A i \in 1..Len(cache) :
                  SavedByPeriodicTwin(cache[i]) =>
                      /\ restored' # ""
                      /\ EndsWith(cache[i].key, "-" \o env["CURRENT_DATE"]) =>
                            restored' = cache[i].key
            /\ restored' # "" =>
                  \E i \in 1..Len(cache) :
                      /\ cache[i].key = restored'
                      /\ SavedByPeriodicTwin(cache[i])]_vars

\* C8 witness: the PR pytest job restored an entry saved under another date
\* by its periodic twin while an entry of another job was in the cache
RestoredOlderFromTwin ==
    /\ RestoreDone
    /\ ctx.workflow = "PR pytest"
    /\ ctx.job = "pytest"
    /\ restored # ""
    /\ ~EndsWith(restored, env["CURRENT_DATE"])
    /\ \E i, j \in 1..Len(cache) :
          /\ i < j
          /\ cache[j].key = restored
          /\ ~SavedByPeriodicTwin(cache[i])

\* github.head_ref || github.ref
HeadRefOrRef(r) == IF r.head_ref # "" THEN r.head_ref ELSE r.ref

\* the group of a run: the workflow name for Periodic tests, the workflow
\* name and head_ref-or-ref for PR pytest and PR typecheck
GroupKey(r) ==
    CASE r.workflow = "Periodic tests" -> <<r.workflow>>
      [] r.workflow \in {"PR pytest", "PR typecheck"} ->
            <<r.workflow, HeadRefOrRef(r)>>
      [] OTHER -> <<>>

\* C5: at most one run per concurrency group is in progress; a new run
\* cancels the in-progress run of its own group, and only that.
OneRunPerGroup ==
    /\ [](\A i, j \in 1..Len(wfruns) :
            (i < j /\ wfruns[i].state = "in_progress"
               /\ wfruns[j].state = "in_progress"
               /\ GroupKey(wfruns[i]) # <<>>) =>
                GroupKey(wfruns[i]) # GroupKey(wfruns[j]))
    /\ [][Len(wfruns') = Len(wfruns) + 1 =>
            LET new == wfruns'[Len(wfruns')] IN
            \A i \in 1..Len(wfruns) :
                /\ (wfruns[i].state = "in_progress" /\ GroupKey(new) # <<>>
                      /\ GroupKey(wfruns[i]) = GroupKey(new)) =>
                        wfruns'[i].state = "cancelled"
                /\ wfruns'[i] # wfruns[i] =>
                      /\ GroupKey(new) # <<>>
                      /\ GroupKey(wfruns[i]) = GroupKey(new)
                      /\ wfruns'[i] = [wfruns[i] EXCEPT !.state = "cancelled"]]_vars

\* C5 witness: a PR pytest run was cancelled by a newer run for the same head
\* branch while a run of another group stayed in progress
RunCancelledByNewerOfGroup ==
    \E i, j, k \in 1..Len(wfruns) :
        /\ i < j
        /\ wfruns[i].workflow = "PR pytest"
        /\ wfruns[i].state = "cancelled"
        /\ wfruns[j].state = "in_progress"
        /\ GroupKey(wfruns[j]) = GroupKey(wfruns[i])
        /\ wfruns[i].number # wfruns[j].number
        /\ k < j
        /\ wfruns[k].state = "in_progress"
        /\ GroupKey(wfruns[k]) # GroupKey(wfruns[j])

\* the event changes a file under aeon/, under .github/workflows/ or
\* pyproject.toml
TouchesTestedPaths ==
    \E f \in event.paths :
        \/ StartsWith(f, "aeon/")
        \/ StartsWith(f, ".github/workflows/")
        \/ f = "pyproject.toml"

\* C11: a pull request (opened, synchronized or reopened) into any base
\* branch creates a PR pytest run iff it changes a file under aeon/**,
\* .github/workflows/** or pyproject.toml, whatever the base branch; a push
\* creates one iff the pushed branch is main.
PrTestsOnAnyBranch ==
    /\ (event.name = "pull_request"
          /\ event.action \in {"opened", "synchronize", "reopened"}) =>
            ("PR pytest" \in triggered <=> TouchesTestedPaths)
    /\ event.name = "push" =>
            ("PR pytest" \in triggered <=> event.branch = "main")

\* C11 witness: a pull request into a branch other than main that changes
\* pyproject.toml got its PR pytest run
PrTestsOnDevBranch ==
    /\ event.name = "pull_request"
    /\ event.branch = "dev"
    /\ event.paths = {"pyproject.toml", "docs/index.md"}
    /\ "PR pytest" \in triggered

\* the command installs the CPU build of TensorFlow or of PyTorch
InstallsCpuBuild(command) ==
    \/ Contains(command, "tensorflow-cpu")
    \/ Contains(command, "download.pytorch.org/whl/cpu")

\* step i is the Install dependencies step of cpu_all_extras: it follows the
\* two CPU install steps of the action
IsCpuAllExtrasInstall(i) ==
    /\ i > 2
    /\ steps[i].name = "Install dependencies"
    /\ steps[i - 1].name = "Install CPU PyTorch"
    /\ InstallsCpuBuild(steps[i - 1].command)
    /\ steps[i - 2].name = "Install CPU TensorFlow"
    /\ InstallsCpuBuild(steps[i - 2].command)

\* C12: no step of a Periodic tests job installs a CPU build or belongs to
\* cpu_all_extras, and a periodic step that installs all_extras is the plain
\* `python -m pip install .[all_extras,...]`; in PR pytest every step that
\* installs all_extras is the Install dependencies step of cpu_all_extras.
PeriodicUsesDefaultInstalls ==
    \A i \in 1..Len(steps) :
        /\ ctx.workflow = "Periodic tests" =>
              /\ ~InstallsCpuBuild(steps[i].command)
              /\ steps[i].name \notin
                    {"Install CPU TensorFlow", "Install CPU PyTorch"}
              /\ ~IsCpuAllExtrasInstall(i)
              /\ Contains(steps[i].command, "all_extras") =>
                    StartsWith(steps[i].command,
                               "python -m pip install .[all_extras,")
        /\ (ctx.workflow = "PR pytest"
              /\ Contains(steps[i].command, "all_extras")) =>
                    IsCpuAllExtrasInstall(i)

\* C12 witness: the periodic pytest job on Linux has installed all_extras
\* with the plain command and no CPU install before it
PeriodicPytestInstalled ==
    /\ ctx.workflow = "Periodic tests"
    /\ ctx.job = "pytest"
    /\ RunnerOS(ctx.os) = "Linux"
    /\ \E i \in 1..Len(steps) :
          /\ steps[i].command = "python -m pip install .[all_extras,dev]"
          /\ ran[i] = "ok"
          /\ ~IsCpuAllExtrasInstall(i)

\* C13: when the comment that triggered Issue comment posted was posted on a
\* pull request, the assign bot assigns nobody, whatever the comment says.
NoAssignmentOnPullRequests ==
    (ctx.workflow = "Issue comment posted"
        /\ "issue.pull_request" \in ctx.payload) => issue.assignees = {}

\* C13 witness: the bot has processed a comment asking for assignment that
\* was posted on a pull request, and nobody is assigned
AssignRequestOnPullRequest ==
    /\ ctx.workflow = "Issue comment posted"
    /\ "issue.pull_request" \in ctx.payload
    /\ phase = "done"
    /\ ran[5] = "ok"
    /\ issue.comment.assign
    /\ issue.comment.user = "alice"
    /\ issue.assignees = {}

\* C14: fit_transform of Padder on a list of 2D arrays returns a collection
\* with the same number of cases and of channels in which every series has
\* the length of the longest input series; fit_transform of Truncator one in
\* which every series has the length of the shortest input series.
PadToLongestTruncateToShortest ==
    transformer # "" =>
        /\ Len(Xt) = Len(X)
        /\ \A i \in 1..Len(X) :
              /\ DOMAIN Xt[i] = DOMAIN X[i]
              /\ \A c \in DOMAIN X[i] :
                    /\ transformer = "Padder" =>
                          \A j \in 1..Len(X) : Len(Xt[i][c]) >= Len(X[j][c])
                    /\ transformer = "Truncator" =>
                          \A j \in 1..Len(X) : Len(Xt[i][c]) <= Len(X[j][c])
                    /\ \E j \in 1..Len(X) : Len(Xt[i][c]) = Len(X[j][c])

\* C14 witness: a collection of three two-channel series of lengths 2, 4 and
\* 1 was padded to length 4
PaddedUnequalCollection ==
    /\ transformer = "Padder"
    /\ Len(X) = 3
    /\ DOMAIN X[1] = 1..2
    /\ Len(X[1][1]) = 2 /\ Len(X[2][1]) = 4 /\ Len(X[3][1]) = 1
    /\ \A i \in 1..3 : Len(Xt[i][2]) = 4

\* the job instances of the run whose job is j
InstancesOf(j) == {i \in DOMAIN release.jobs : i.job = j}

\* every instance of job j has succeeded
Succeeded(j) ==
    \A i \in InstancesOf(j) : release.jobs[i].result = "success"

\* some instance of job j has run (to success or failure)
HasRun(j) ==
    \E i \in InstancesOf(j) : release.jobs[i].result \in {"success", "failure"}

\* C15: in a Release run upload-wheels runs, and the package is published,
\* only after check-manifest, build-project and each of the 12 test-wheels
\* instances has succeeded, each job running only after the one before it
\* succeeded; results are final; a failing test-wheels instance leaves the
\* other instances untouched.
PublishOnlyAfterAllSucceeded ==
    /\ [](release # NoRun =>
            /\ Cardinality(InstancesOf("test-wheels")) = 12
            /\ HasRun("build-project") => Succeeded("check-manifest")
            /\ HasRun("test-wheels") => Succeeded("build-project")
            /\ (HasRun("upload-wheels") \/ release.published # {}) =>
                  /\ Succeeded("check-manifest")
                  /\ Succeeded("build-project")
                  /\ Succeeded("test-wheels"))
    /\ [][release # NoRun =>
            \A i \in DOMAIN release.jobs :
                /\ release.jobs[i].result # "pending" =>
                      release'.jobs[i] = release.jobs[i]
                /\ (release.jobs[i].result = "pending"
                      /\ release'.jobs[i].result = "failure") =>
                      \A k \in InstancesOf("test-wheels") \ {i} :
                          release'.jobs[k] = release.jobs[k]]_vars

\* C15 witness: the package was published after all 14 jobs before
\* upload-wheels had succeeded
ReleasePublished ==
    /\ release # NoRun
    /\ release.published = BuildOutputs
    /\ Succeeded("upload-wheels")
    /\ Succeeded("test-wheels")

\* In a Release run the dist artifact is stored once, by build-project,
\* and never changes; every test-wheels instance that succeeded installed
\* the wheel of that artifact, not the checkout; what upload-wheels
\* publishes is that artifact; no job but build-project builds or stores a
\* distribution.
PublishedIsBuiltAndInstalled ==
    /\ [](release # NoRun =>
            /\ release.artifacts.dist # NoArtifact =>
                  /\ release.artifacts.dist.by = "build-project"
                  /\ release.artifacts.dist.files = BuildOutputs
                  /\ Succeeded("check-manifest")
            /\ Succeeded("build-project") =>
                  release.artifacts.dist # NoArtifact
            /\ \A i \in InstancesOf("test-wheels") :
                  release.jobs[i].result = "success" =>
                      release.jobs[i].installed
                          \in Wheels(release.artifacts.dist.files)
            /\ release.published \subseteq release.artifacts.dist.files
            /\ release.published # {} =>
                  \A i \in InstancesOf("test-wheels") :
                      release.jobs[i].installed
                          \in Wheels(release.artifacts.dist.files)
            /\ Succeeded("upload-wheels") =>
                  release.published = release.artifacts.dist.files
            /\ \A i \in DOMAIN release.jobs :
                  /\ ReleasePlan[i].installs # "checkout"
                  /\ (ReleasePlan[i].builds \/ ReleasePlan[i].stores # {}) =>
                        i.job = "build-project")
    /\ [][release.artifacts.dist # NoArtifact =>
            release'.artifacts.dist = release.artifacts.dist]_vars

\* C16: in a Release run the published distribution is the dist artifact
\* stored once by build-project, which every test-wheels instance
\* downloaded, installed through WHEELNAME and tested: the tests of each
\* successful instance ran against the wheel of that artifact which the
\* instance installed, and nothing is built or stored a second time.
PublishedIsBuiltAndTested ==
    /\ PublishedIsBuiltAndInstalled
    /\ [](release # NoRun =>
            \A i \in InstancesOf("test-wheels") :
                release.jobs[i].result = "success" =>
                    /\ release.jobs[i].tested = release.jobs[i].installed
                    /\ release.jobs[i].tested
                          \in Wheels(release.artifacts.dist.files))

\* C16 divergence: the files of the artifact are published after the
\* windows-2022 / Python 3.13 test-wheels instance installed the wheel of
\* the artifact and passed its tests on the aeon of the checkout
PublishedWheelInstalledCheckoutTested ==
    /\ release # NoRun
    /\ release.published = release.artifacts.dist.files
    /\ release.artifacts.dist.by = "build-project"
    /\ Succeeded("upload-wheels")
    /\ \E i \in InstancesOf("test-wheels") :
          /\ i.os = "windows-2022"
          /\ i.py = "3.13"
          /\ release.jobs[i].result = "success"
          /\ release.jobs[i].installed \in release.published
          /\ release.jobs[i].tested = "checkout"


----------------------------------------------------------------------------
(* The matrix of the pytest job of PR pytest.                              *)

InPrPytestJob(j) ==
    phase # "idle" /\ ctx.workflow = "PR pytest" /\ ctx.job = j

Combinations(pys, pt) ==
    [os : {"ubuntu-24.04", "macOS-14", "windows-2022"}, py : pys,
     pr_testing : {pt}]

\* C17: in the pytest job of PR pytest, a pull_request event whose pull
\* request lacks the label 'full pytest actions' gets the 9 combinations of
\* the three operating systems with Python 3.10, 3.12 and 3.13 (3.11 is
\* excluded); a push, or a pull request with the label, gets all 12
\* combinations of the three operating systems with the four versions.
ReducedMatrixWithoutFullLabel ==
    InPrPytestJob("pytest") =>
        IF ctx.event_name = "pull_request"
               /\ "full pytest actions" \notin ctx.labels
        THEN /\ matrix = Combinations({"3.10", "3.12", "3.13"}, "true")
             /\ Cardinality(matrix) = 9
             /\ ctx.py # "3.11"
        ELSE /\ matrix = Combinations({"3.10", "3.11", "3.12", "3.13"}, "false")
             /\ Cardinality(matrix) = 12

\* a pull request without the label runs one of its 9 combinations
ReducedMatrixRunning ==
    /\ InPrPytestJob("pytest")
    /\ phase = "running"
    /\ ctx.event_name = "pull_request"
    /\ "full pytest actions" \notin ctx.labels
    /\ Cardinality(matrix) = 9
    /\ ctx.py = "3.13"
    /\ pc > 1


\* the value after --prtesting in the command of the Run tests step
PrTestingArg ==
    LET command == steps[StepIndex("Run tests")].command IN
    IF EndsWith(command, " --prtesting true") THEN "true"
    ELSE IF EndsWith(command, " --prtesting false") THEN "false"
    ELSE "none"

\* C18: in every run of the pytest job of PR pytest the value passed to
\* --prtesting is the matrix value pr-testing of the run; it is true exactly
\* when Python 3.11 is excluded from the matrix, and false exactly when the
\* event is not a pull request or the pull request has the label
\* 'full pytest actions'.
PrTestingArgIsMatrixValue ==
    InPrPytestJob("pytest") =>
        /\ PrTestingArg \in {"true", "false"}
        /\ PrTestingArg = ctx.pr_testing
        /\ \A m \in matrix : m.pr_testing = PrTestingArg
        /\ PrTestingArg = "true" <=> ~\E m \in matrix : m.py = "3.11"
        /\ PrTestingArg = "false" <=>
              (ctx.event_name # "pull_request"
                   \/ "full pytest actions" \in ctx.labels)

\* the Run tests step of a pull request with the label 'full pytest actions'
\* has run on Python 3.11 with --prtesting false
FullSuiteOnLabelledPullRequest ==
    /\ InPrPytestJob("pytest")
    /\ ctx.event_name = "pull_request"
    /\ "full pytest actions" \in ctx.labels
    /\ ctx.py = "3.11"
    /\ PrTestingArg = "false"
    /\ ran[StepIndex("Run tests")] = "ok"


\* the context of the job had the pull request the other value of the label
ToggleLabel(c, label) ==
    [c EXCEPT !.labels = IF label \in c.labels THEN c.labels \ {label}
                         ELSE c.labels \cup {label}]

\* C19: the codecov job of PR pytest runs iff the event is not a pull request
\* or the pull request has the label 'codecov actions'; for a pull request
\* without the label the job is skipped, none of its steps runs and no
\* coverage is uploaded.  The other jobs of PR pytest need no job, have no
\* `if`, and their matrix and steps are the same with and without the label,
\* so their outcome does not depend on whether codecov ran.
CodecovRunsOnLabelOrPush ==
    /\ InPrPytestJob("codecov") =>
          LET wanted == ctx.event_name # "pull_request"
                            \/ "codecov actions" \in ctx.labels IN
          /\ phase # "skipped" <=> wanted
          /\ phase = "skipped" =>
                /\ \A i \in 1..Len(steps) : ran[i] = "pending"
                /\ HasStep("Upload coverage to Codecov")
          /\ Executed(StepIndex("Upload coverage to Codecov")) => wanted
    /\ \A j \in Jobs("PR pytest") \ {"codecov"} :
          InPrPytestJob(j) =>
              /\ Needs("PR pytest", j) = {}
              /\ phase # "skipped"
              /\ ctx.event_name = "pull_request" =>
                    LET other == ToggleLabel(ctx, "codecov actions") IN
                    /\ JobIf(other)
                    /\ Steps(other) = steps
                    /\ Matrix("PR pytest", j, other) = matrix

\* the codecov job of a pull request without the label was skipped
CodecovSkippedOnUnlabelledPullRequest ==
    /\ InPrPytestJob("codecov")
    /\ ctx.event_name = "pull_request"
    /\ "codecov actions" \notin ctx.labels
    /\ phase = "skipped"
    /\ pc = 1


\* the steps of the composite action numba_cache
NumbaCacheStepNames ==
    {"Set numba cache env", "Set numba CPU env", "Set numba CPU features env",
     "Set CACHING_CICD_RUNNING env", "Get Current Date",
     "Use GNU tar instead BSD tar if Windows", "Restore cache"}

NumbaCacheSteps ==
    {i \in 1..Len(steps) : steps[i].name \in NumbaCacheStepNames}

\* the job has a step that uses numba_cache and the `if` of that step holds
InvokesNumbaCache ==
    /\ NumbaCacheSteps # {}
    /\ steps[StepIndex("Set numba cache env")].cond

\* the event is not a pull request, or the pull request lacks 'no numba cache'
NumbaCacheWanted ==
    ctx.event_name # "pull_request" \/ "no numba cache" \notin ctx.labels

\* the jobs of PR pytest that have a Restore numba cache step
PrPytestNumbaJobs ==
    {"test-no-soft-deps", "pytest", "doctests", "multithreaded-estimators"}

\* the last install step and the test step of the job ran
InstalledAndTested ==
    /\ \E i \in 1..Len(steps) :
          /\ steps[i].name \in {"Install aeon and dependencies",
                                "Install dependencies"}
          /\ ran[i] = "ok"
    /\ ran[StepIndex("Run tests")] = "ok"

\* C20, as stated: every job of PR pytest invokes numba_cache iff the event
\* is not a pull request or the pull request lacks the label
\* 'no numba cache'.
EveryJobInvokesNumbaCacheUnlessLabelled ==
    (phase \in {"running", "done"} /\ ctx.workflow = "PR pytest") =>
        (InvokesNumbaCache <=> NumbaCacheWanted)

\* C20, amended: each of the jobs test-no-soft-deps, pytest, doctests and
\* multithreaded-estimators of PR pytest invokes numba_cache iff the event is
\* not a pull request or the pull request lacks the label 'no numba cache';
\* with the label every step of the action is skipped, nothing is restored
\* and the four variables stay unset, while all other steps of the job are
\* the same in both cases and a job that ends successfully has run its
\* install and test steps.  The codecov job never invokes the action.
NumbaCacheSkippedOnLabel ==
    /\ \A j \in PrPytestNumbaJobs :
          (InPrPytestJob(j) /\ phase \in {"running", "done"}) =>
              /\ InvokesNumbaCache <=> NumbaCacheWanted
              /\ Cardinality(NumbaCacheSteps) = 7
              /\ \A i \in NumbaCacheSteps :
                    /\ Executed(i) => NumbaCacheWanted
                    /\ (~NumbaCacheWanted /\ pc > i) => ran[i] = "skipped"
              /\ ~NumbaCacheWanted =>
                    /\ restored = ""
                    /\ \A v \in NumbaEnv : env[v] = ""
              /\ LET other == Steps(ToggleLabel(ctx, "no numba cache")) IN
                 ctx.event_name = "pull_request" =>
                    /\ Len(other) = Len(steps)
                    /\ \A i \in 1..Len(steps) :
                          IF i \in NumbaCacheSteps
                          THEN [other[i] EXCEPT !.cond = steps[i].cond] = steps[i]
                          ELSE other[i] = steps[i]
              /\ (phase = "done" /\ status = "success") => InstalledAndTested
    /\ InPrPytestJob("codecov") =>
          /\ NumbaCacheSteps = {}
          /\ restored = ""
          /\ \A v \in NumbaEnv : env[v] = ""

\* a pytest job of a pull request with the label 'no numba cache' ended
\* successfully: the action was skipped, the install and test steps ran
TestsRanWithoutNumbaCache ==
    /\ InPrPytestJob("pytest")
    /\ ctx.event_name = "pull_request"
    /\ "no numba cache" \in ctx.labels
    /\ phase = "done"
    /\ status = "success"
    /\ \A i \in NumbaCacheSteps : ran[i] = "skipped"
    /\ InstalledAndTested
    /\ \A v \in NumbaEnv : env[v] = ""


----------------------------------------------------------------------------
(* The numba caches saved by Periodic tests.                               *)

InPeriodicJob ==
    phase \in {"running", "done"} /\ ctx.workflow = "Periodic tests"

\* the install step and the test step of a job that saves a cache
InstallAndTestSteps ==
    {i \in 1..Len(steps) :
        steps[i].name \in {"Install dependencies",
                           "Install aeon and dependencies",
                           "Run example notebooks", "Run tests"}}

\* C21: in Periodic tests no job restores a numba cache: every Restore cache
\* step has restore_cache 'false' and is never executed.  A Save new cache
\* step is executed only after the install and test steps of the job
\* succeeded, in a job that is neither failed nor cancelled, and it saves
\* under numba-<cache_name>-<os>-<python_version>-<CURRENT_DATE> with the
\* CURRENT_DATE that the numba_cache steps of the same job set; a job whose
\* install or tests failed, or that was cancelled before, saves nothing.
PeriodicSavesOnlyAfterSuccess ==
    InPeriodicJob =>
        /\ restored = ""
        /\ \A i \in 1..Len(steps) :
              IsRestore(steps[i]) =>
                  steps[i].value = "false" /\ ~Executed(i)
        /\ HasStep("Save new cache") =>
              LET save == StepIndex("Save new cache")
                  date == StepIndex("Get Current Date") IN
              /\ HasStep("Get Current Date") /\ date < save
              /\ Cardinality(InstallAndTestSteps) = 2
              /\ \A i \in InstallAndTestSteps : i < save
              /\ Executed(save) =>
                    /\ \A i \in 1..(save - 1) : ran[i] \in {"ok", "skipped"}
                    /\ \A i \in InstallAndTestSteps : ran[i] = "ok"
                    /\ ran[date] = "ok"
                    /\ status = "success"
                    /\ env["CURRENT_DATE"] # ""
                    /\ cache = << [key |-> DatelessPrefix \o env["CURRENT_DATE"],
                                   by |-> Saver(ctx, steps)] >>
              /\ ~Executed(save) => cache = <<>>
              /\ (pc > save /\ \E i \in 1..(save - 1) : ran[i] = "failed")
                    => ran[save] = "skipped"
              /\ (status = "cancelled" /\ pc > save) => ran[save] = "skipped"
        /\ ~HasStep("Save new cache") => cache = <<>>

\* a Windows pytest job of Periodic tests saved its cache after install and
\* tests succeeded, on a later day than the one it started on
PeriodicPytestSavedCache ==
    /\ InPeriodicJob
    /\ ctx.job = "pytest"
    /\ ctx.os = "windows-2022"
    /\ ran[StepIndex("Save new cache")] = "ok"
    /\ Len(cache) = 1
    /\ cache[1].key = "numba-pytest-Windows-" \o ctx.py \o "-" \o FormatDate(1)
    /\ today = 2


\* C22: every cache that a PR pytest job tries to restore (test-no-soft-deps,
\* pytest, doctests, multithreaded-estimators) is saved by the Periodic tests
\* job of the same name: the PR pytest job restores under the prefix
\* numba-<cache_name>-<os>-<python_version>-, and a Periodic tests job of
\* that name that ended successfully has saved an entry under that prefix.
PeriodicTwinSavesEveryRestoredCache ==
    \A j \in PrPytestNumbaJobs :
        /\ (InPrPytestJob(j) /\ HasStep("Restore cache")) =>
              LET restore == steps[StepIndex("Restore cache")] IN
              /\ restore.restore_keys = DatelessPrefix
              /\ StartsWith(restore.key, DatelessPrefix)
        /\ (InPeriodicJob /\ ctx.job = j /\ phase = "done"
                /\ status = "success") =>
              \E i \in 1..Len(cache) :
                  /\ StartsWith(cache[i].key, DatelessPrefix)
                  /\ cache[i].by.workflow = "Periodic tests"
                  /\ cache[i].by.job = j


\* the Periodic tests job doctests ended successfully and saved no cache
PeriodicDoctestsSavedNothing ==
    /\ InPeriodicJob
    /\ ctx.job = "doctests"
    /\ phase = "done"
    /\ status = "success"
    /\ ran[StepIndex("Run tests")] = "ok"
    /\ ~HasStep("Save new cache")
    /\ env["CURRENT_DATE"] # ""
    /\ cache = <<>>


----------------------------------------------------------------------------
(* The hooks pre-commit runs in the jobs.                                  *)

\* the job's pre-commit step has been executed
PreCommitRan ==
    /\ phase \in {"running", "done"}
    /\ \E i \in 1..Len(steps) : IsPreCommit(steps[i]) /\ Executed(i)

\* the job's pre-commit step has been reached
PreCommitReached ==
    /\ phase \in {"running", "done"}
    /\ \E i \in 1..Len(steps) : IsPreCommit(steps[i]) /\ pc >= i

\* the ids of the first n hooks of the configuration
FirstHooks(n) == {HookIds[k] : k \in 1..n}

\* C23: the check-manifest hook is restricted to the manual stage.  It runs
\* only in a job whose pre-commit step has the arguments
\* `check-manifest --hook-stage manual`, which are the check-manifest jobs of
\* Periodic tests and Release, where it is the only hook run; the pre-commit
\* job of Periodic tests runs `--all-files`, never runs check-manifest, runs
\* the other hooks one after another in the order of the configuration, and
\* has run every one of them when its pre-commit step has succeeded.
CheckManifestOnlyInManualStage ==
    /\ "check-manifest" \in hooks =>
          /\ PreCommitReached
          /\ ctx.workflow \in {"Periodic tests", "Release"}
          /\ ctx.job = "check-manifest"
          /\ \A i \in 1..Len(steps) :
                IsPreCommit(steps[i]) =>
                    steps[i].value = "check-manifest --hook-stage manual"
          /\ hooks = {"check-manifest"}
    /\ (phase # "idle" /\ ctx.job = "check-manifest") =>
          /\ hooks \subseteq {"check-manifest"}
          /\ (\E i \in 1..Len(steps) :
                IsPreCommit(steps[i]) /\ ran[i] = "ok") =>
                    hooks = {"check-manifest"}
    /\ (phase # "idle" /\ ctx.workflow = "Periodic tests"
            /\ ctx.job = "pre-commit") =>
          LET others == {h.id : h \in PreCommitHooks} \ {"check-manifest"}
              step == StepIndex("Run pre-commit")
          IN
          /\ steps[step].value = "--all-files"
          /\ Cardinality(others) = 25
          /\ "check-manifest" \notin hooks
          /\ \E n \in 0..Len(HookIds) : hooks = FirstHooks(n) \cap others
          /\ ran[step] = "ok" => hooks = others
          /\ ran[step] = "failed" => hooks \in {{}, others}
    /\ hooks # {} =>
          /\ PreCommitReached
          /\ ctx.job \in {"check-manifest", "pre-commit"}
          /\ ctx.workflow \in {"Periodic tests", "Release"}
    /\ PreCommitRan =>
          (ctx.job \in {"check-manifest", "pre-commit"}
              /\ ctx.workflow \in {"Periodic tests", "Release"})

\* the pre-commit job of Periodic tests has run every hook but check-manifest
PeriodicPreCommitRanOtherHooks ==
    /\ PreCommitRan
    /\ ctx.workflow = "Periodic tests"
    /\ ctx.job = "pre-commit"
    /\ ran[StepIndex("Run pre-commit")] = "ok"
    /\ "check-manifest" \notin hooks
    /\ Cardinality(hooks) = 25
    /\ {"ruff", "black", "codespell", "trailing-whitespace"} \subseteq hooks

====
